---- MODULE Spec2Model ----
(***************************************************************************)
(* A model of the budget backend (express handlers over a relational       *)
(* store reached through prisma).  The store's tables are the state; each  *)
(* HTTP handler is one action, except where a property is about the        *)
(* interleaving of the store calls of concurrent requests: there each      *)
(* awaited store call is one step of a request process.                    *)
(*                                                                         *)
(* Amounts are counted in quarter cents; the DECIMAL(15,2) columns keep    *)
(* whole cents and round what is written to them.                          *)
(***************************************************************************)
EXTENDS Integers, Sequences, FiniteSets, TLC

VARIABLES
    users,        \* table users:        id -> NoRow | [email, password, name]
    account,      \* table accounts:     userId -> NoRow | ledger row (userId is unique)
    incomes,      \* table incomes:      id -> NoRow | [userId, amount, dim, date]
    expenses,     \* table expenses:     id -> NoRow | [userId, amount, dim, date]
    investments,  \* table investments:  id -> NoRow | [userId, amount, dim, date]
                  \* (dim is the source, category or area; date is a calendar day)
    nextId,       \* the number of record ids handed out so far (ids are never reused)
    resp,         \* the last request answered: handler, caller, request and answer
    snap,         \* per user: the ledger as it was before the user's last create,
                  \* while nothing else has written to the user's data since
    cards,        \* table cards:        id -> NoRow | [userId, isDefault]
    creq,         \* per request process: the request in flight, or None
    budgets,      \* table budgets:      id -> NoRow | [userId, spent, limit]
    goals,        \* table savings_goals: id -> NoRow | [userId, targetAmount,
                  \*                                      currentAmount, status]
    now,          \* the clock, in weeks
    client,       \* per user id: None | what the person registered as that user
                  \* holds: [password, token], the token being the last one issued
    transactions, \* table transactions: id -> NoRow | [userId, amount, dim, date],
                  \* with the type where createTransaction wrote the row
    today,        \* the calendar day of the clock, in days since 1970-01-01
    accounts      \* table accounts as the sequence of its rows [userId, ledger], for
                  \* the requests whose store calls interleave: there the unique
                  \* index on userId is what account.create checks

vars == <<users, account, incomes, expenses, investments, nextId, resp, snap,
          cards, creq, budgets, goals, now, client, transactions, today, accounts>>

\* what the handlers of each specification leave alone
LedgerFrame == <<cards, creq, budgets, goals, now, transactions, today, accounts>>
AuthFrame == <<incomes, expenses, investments, nextId, snap, cards, budgets, goals,
               transactions, today, accounts>>
CardFrame == <<account, incomes, expenses, investments, snap, budgets, goals, now,
               transactions, today, accounts>>
GoalFrame == <<users, client, account, incomes, expenses, investments, snap, cards, creq,
               budgets, now, transactions, today, accounts>>
BudgetFrame == <<users, client, account, incomes, expenses, investments, snap, cards, creq,
                 goals, now, transactions, today, accounts>>

----------------------------------------------------------------------------
(* Bounds of the model *)

MaxRecords == 2         \* record ids handed out in one run
MaxAmount == 48000      \* contributions stop when a goal would hold more (quarter cents)
MaxNow == 2             \* the clock stops after this many weeks

UserIds == {1, 2}
RecIds == 1..MaxRecords
Procs == {1, 2}         \* requests in flight at the same time

NoRow == [norow |-> TRUE]      \* no row under this key
None == [none |-> TRUE]

----------------------------------------------------------------------------
(* Values of request bodies *)

Absent == [t |-> "absent"]     \* a field that is undefined, null or ""
Num(n) == [t |-> "num", n |-> n]
Str(s) == [t |-> "str", s |-> s]
Bool(b) == [t |-> "bool", b |-> b]
NotANumber == [t |-> "nan"]    \* parseFloat / Number of a non-numeric string
Day(d) == [t |-> "date", d |-> d]   \* a date string that names calendar day d
InvalidDate == [t |-> "invalid"]    \* new Date of a string that is no date

\* !v of JavaScript
Falsy(v) == v = Absent \/ v = Num(0) \/ v = Bool(FALSE)

\* parseFloat(v) / Number(v) of a present value
ParseFloat(v) == IF v.t = "num" THEN v ELSE NotANumber

\* new Date(v) of a present value
NewDate(v) == IF v.t = "date" THEN v ELSE InvalidDate

\* x <= 0 of JavaScript: every comparison with NaN is false
LeqZero(x) == x.t = "num" /\ x.n <= 0

(* Money is counted in quarter cents (0.0025), so that a request can carry *)
(* an amount finer than the columns keep, on either side of the half cent. *)
(* Arithmetic in the handlers is taken to be exact on these amounts.       *)

\* one cent, the unit of a DECIMAL(15,2) column
Cent == 4

\* n whole currency units
Whole(n) == 100 * Cent * n

\* a value as a DECIMAL(15,2) column stores it: rounded to the cent, a half
\* cent away from zero
Dec(x) ==
    LET abs == IF x >= 0 THEN x ELSE 0 - x
        r == abs % Cent
        rounded == IF 2 * r >= Cent THEN abs - r + Cent ELSE abs - r
    IN IF x >= 0 THEN rounded ELSE 0 - rounded

----------------------------------------------------------------------------
(* The account ledger *)

ZeroAccount ==
    [totalBalance |-> 0, totalIncome |-> 0, totalExpense |-> 0,
     totalSavings |-> 0, totalInvested |-> 0]

\* the ledger as getDashboard reports it: zeros when the row is missing
LedgerView(acc) == IF acc = NoRow THEN ZeroAccount ELSE acc

IncomeCreateDelta(row, a) ==
    [row EXCEPT !.totalIncome = Dec(@ + a), !.totalBalance = Dec(@ + a)]

IncomeDeleteDelta(row, a) ==
    [row EXCEPT !.totalIncome = Dec(@ - a), !.totalBalance = Dec(@ - a)]

ExpenseCreateDelta(row, a) ==
    [row EXCEPT !.totalExpense = Dec(@ + a), !.totalBalance = Dec(@ - a)]

\* an investment that leaves the balance alone
InvestmentCreateDelta_KeepsBalance(row, a) ==
    [row EXCEPT !.totalInvested = Dec(@ + a)]

InvestmentCreateDelta(row, a) ==
    [row EXCEPT !.totalInvested = Dec(@ + a), !.totalBalance = Dec(@ - a)]

InvestmentDeleteDelta(row, a) ==
    [row EXCEPT !.totalInvested = Dec(@ - a), !.totalBalance = Dec(@ + a)]

----------------------------------------------------------------------------
(* Credentials *)

\* bcrypt reads at most this many bytes of a password (bcryptjs, as bcrypt)
BcryptMaxBytes == 72

JWT_EXPIRY == 1         \* '7d', in weeks

Truncate(p) == IF Len(p) <= BcryptMaxBytes THEN p ELSE SubSeq(p, 1, BcryptMaxBytes)

\* bcrypt.hash(password, salt): what the hash keeps of the password
hashPassword(p) == [bcrypt |-> Truncate(p)]

\* bcrypt.compare(password, hash)
comparePassword(p, h) == Truncate(p) = h.bcrypt

\* jwt.sign({userId}, JWT_SECRET, {expiresIn: '7d'}) at time t
generateToken(userId, t) ==
    [userId |-> userId, exp |-> t + JWT_EXPIRY, signedBy |-> "JWT_SECRET"]

----------------------------------------------------------------------------
(* Store queries *)

Registered == {u \in UserIds : users[u] # NoRow}

\* prisma.user.findUnique({where: {email}})
FindUserByEmail(email) == {u \in Registered : users[u].email = email}

\* prisma.<table>.findFirst({where: {id, userId}})
FindOwned(table, id, userId) ==
    IF id \in DOMAIN table /\ table[id] # NoRow /\ table[id].userId = userId
    THEN table[id] ELSE NoRow

\* the answer to a request: the handler, the caller (req.userId), the HTTP status
\* and the id of the record the request named or created
Answer(op, userId, status, id) ==
    resp' = [op |-> op, user |-> userId, status |-> status, id |-> id]

\* snap after a create of record id by userId
SnapCreate(userId, kind, id) ==
    snap' = [snap EXCEPT ![userId] =
                [kind |-> kind, id |-> id,
                 before |-> LedgerView(account[userId]), done |-> FALSE]]

\* snap after the delete of record id by userId
SnapDelete(userId, kind, id) ==
    snap' = [snap EXCEPT ![userId] =
                IF snap[userId] # None /\ ~snap[userId].done
                   /\ snap[userId].kind = kind /\ snap[userId].id = id
                THEN [snap[userId] EXCEPT !.done = TRUE]
                ELSE None]

SnapClear(userId) == snap' = [snap EXCEPT ![userId] = None]

----------------------------------------------------------------------------
(* authController.register *)

\* the answer to a register or login request, with the credentials it sent
AuthAnswer(op, userId, status, id, email, password, token) ==
    resp' = [op |-> op, user |-> userId, status |-> status, id |-> id,
             email |-> email, password |-> password, token |-> token]

\* a register that sends the request on to the store whatever the lookup finds
registerRejects_NoLookup(email, password) ==
    IF Falsy(email) \/ Falsy(password) THEN 400 ELSE 0

\* the status register answers before it writes, 0 when it goes on to write
registerRejects(email, password) ==
    IF Falsy(email) \/ Falsy(password) THEN 400
    ELSE IF FindUserByEmail(email) # {} THEN 409
    ELSE 0

\* register from hashPassword on: user.create fails on the unique index
\* users_email_key, account.create may fail, and 201 carries the token
userCreate(email, password, accountCreateFails) ==
    IF FindUserByEmail(email) # {}
    THEN /\ AuthAnswer("register", 0, 500, 0, email, password, None)
         /\ UNCHANGED <<users, account, client>>
    ELSE \E id \in UserIds :
         /\ users[id] = NoRow
         /\ \A j \in UserIds : j < id => users[j] # NoRow
         /\ users' = [users EXCEPT ![id] =
                         [email |-> email, password |-> hashPassword(password.s),
                          name |-> [t |-> "localPart", of |-> email.s]]]
         /\ IF accountCreateFails
            THEN /\ AuthAnswer("register", 0, 500, id, email, password, None)
                 /\ UNCHANGED <<account, client>>
            ELSE /\ account' = [account EXCEPT ![id] = ZeroAccount]
                 /\ client' = [client EXCEPT ![id] =
                        [password |-> password.s, token |-> generateToken(id, now)]]
                 /\ AuthAnswer("register", id, 201, id, email, password,
                               generateToken(id, now))

\* register as one step
register(email, password, accountCreateFails) ==
    /\ IF registerRejects(email, password) # 0
       THEN /\ AuthAnswer("register", 0, registerRejects(email, password), 0,
                          email, password, None)
            /\ UNCHANGED <<users, account, client>>
       ELSE userCreate(email, password, accountCreateFails)
    /\ UNCHANGED snap

----------------------------------------------------------------------------
(* incomeController *)

createIncome(userId, body) ==
    IF Falsy(body.title) \/ Falsy(body.dim) \/ Falsy(body.amount)
    THEN /\ Answer("createIncome", userId, 400, 0)
         /\ UNCHANGED <<incomes, account, nextId, snap>>
    ELSE LET parsedAmount == ParseFloat(body.amount) IN
    IF LeqZero(parsedAmount)
    THEN /\ Answer("createIncome", userId, 400, 0)
         /\ UNCHANGED <<incomes, account, nextId, snap>>
    ELSE IF parsedAmount = NotANumber
            \/ (~Falsy(body.date) /\ NewDate(body.date) = InvalidDate)
    THEN /\ Answer("createIncome", userId, 500, 0)
         /\ UNCHANGED <<incomes, account, nextId, snap>>
    ELSE /\ nextId + 1 \in DOMAIN incomes
         /\ nextId' = nextId + 1
         /\ incomes' = [incomes EXCEPT ![nextId + 1] =
                           [userId |-> userId, amount |-> Dec(parsedAmount.n),
                            dim |-> body.dim.s,
                            date |-> IF Falsy(body.date) THEN today
                                     ELSE NewDate(body.date).d]]
         /\ account' = [account EXCEPT ![userId] =
                           IncomeCreateDelta(LedgerView(account[userId]), parsedAmount.n)]
         /\ Answer("createIncome", userId, 201, nextId + 1)
         /\ SnapCreate(userId, "income", nextId + 1)

updateIncome(userId, id, body) ==
    LET income == FindOwned(incomes, id, userId) IN
    IF income = NoRow
    THEN /\ Answer("updateIncome", userId, 404, id)
         /\ UNCHANGED <<incomes, account, nextId, snap>>
    ELSE IF ~Falsy(body.amount) /\ LeqZero(ParseFloat(body.amount))
    THEN /\ Answer("updateIncome", userId, 400, id)
         /\ UNCHANGED <<incomes, account, nextId, snap>>
    ELSE IF \/ (~Falsy(body.amount) /\ ParseFloat(body.amount) = NotANumber)
            \/ (~Falsy(body.date) /\ NewDate(body.date) = InvalidDate)
    THEN /\ Answer("updateIncome", userId, 500, id)
         /\ UNCHANGED <<incomes, account, nextId, snap>>
    ELSE /\ incomes' = [incomes EXCEPT
             ![id].dim = IF Falsy(body.dim) THEN @ ELSE body.dim.s,
             ![id].amount = IF Falsy(body.amount) THEN @
                            ELSE Dec(ParseFloat(body.amount).n),
             ![id].date = IF Falsy(body.date) THEN @ ELSE NewDate(body.date).d]
         /\ Answer("updateIncome", userId, 200, id)
         /\ SnapClear(userId)
         /\ UNCHANGED <<account, nextId>>

deleteIncome(userId, id) ==
    LET income == FindOwned(incomes, id, userId) IN
    IF income = NoRow
    THEN /\ Answer("deleteIncome", userId, 404, id)
         /\ UNCHANGED <<incomes, account, nextId, snap>>
    ELSE /\ account' = [account EXCEPT ![userId] =
                           IF @ = NoRow THEN @ ELSE IncomeDeleteDelta(@, income.amount)]
         /\ incomes' = [incomes EXCEPT ![id] = NoRow]
         /\ Answer("deleteIncome", userId, 200, id)
         /\ SnapDelete(userId, "income", id)
         /\ UNCHANGED nextId

----------------------------------------------------------------------------
(* expenseController *)

ExpenseDeleteDelta(row, a) ==
    [row EXCEPT !.totalExpense = Dec(@ - a), !.totalBalance = Dec(@ + a)]

createExpense(userId, body) ==
    IF Falsy(body.title) \/ Falsy(body.dim) \/ Falsy(body.amount)
    THEN /\ Answer("createExpense", userId, 400, 0)
         /\ UNCHANGED <<expenses, account, nextId, snap>>
    ELSE LET parsedAmount == ParseFloat(body.amount) IN
    IF LeqZero(parsedAmount)
    THEN /\ Answer("createExpense", userId, 400, 0)
         /\ UNCHANGED <<expenses, account, nextId, snap>>
    ELSE IF parsedAmount = NotANumber
            \/ (~Falsy(body.date) /\ NewDate(body.date) = InvalidDate)
    THEN /\ Answer("createExpense", userId, 500, 0)
         /\ UNCHANGED <<expenses, account, nextId, snap>>
    ELSE /\ nextId + 1 \in DOMAIN expenses
         /\ nextId' = nextId + 1
         /\ expenses' = [expenses EXCEPT ![nextId + 1] =
                            [userId |-> userId, amount |-> Dec(parsedAmount.n),
                            dim |-> body.dim.s,
                            date |-> IF Falsy(body.date) THEN today
                                     ELSE NewDate(body.date).d]]
         /\ account' = [account EXCEPT ![userId] =
                           IF @ = NoRow THEN @ ELSE ExpenseCreateDelta(@, parsedAmount.n)]
         /\ Answer("createExpense", userId, 201, nextId + 1)
         /\ SnapCreate(userId, "expense", nextId + 1)

updateExpense(userId, id, body) ==
    LET expense == FindOwned(expenses, id, userId) IN
    IF expense = NoRow
    THEN /\ Answer("updateExpense", userId, 404, id)
         /\ UNCHANGED <<expenses, account, nextId, snap>>
    ELSE IF ~Falsy(body.amount) /\ LeqZero(ParseFloat(body.amount))
    THEN /\ Answer("updateExpense", userId, 400, id)
         /\ UNCHANGED <<expenses, account, nextId, snap>>
    ELSE IF \/ (~Falsy(body.amount) /\ ParseFloat(body.amount) = NotANumber)
            \/ (~Falsy(body.date) /\ NewDate(body.date) = InvalidDate)
    THEN /\ Answer("updateExpense", userId, 500, id)
         /\ UNCHANGED <<expenses, account, nextId, snap>>
    ELSE /\ expenses' = [expenses EXCEPT
             ![id].dim = IF Falsy(body.dim) THEN @ ELSE body.dim.s,
             ![id].amount = IF Falsy(body.amount) THEN @
                            ELSE Dec(ParseFloat(body.amount).n),
             ![id].date = IF Falsy(body.date) THEN @ ELSE NewDate(body.date).d]
         /\ Answer("updateExpense", userId, 200, id)
         /\ SnapClear(userId)
         /\ UNCHANGED <<account, nextId>>

deleteExpense(userId, id) ==
    LET expense == FindOwned(expenses, id, userId) IN
    IF expense = NoRow
    THEN /\ Answer("deleteExpense", userId, 404, id)
         /\ UNCHANGED <<expenses, account, nextId, snap>>
    ELSE /\ account' = [account EXCEPT ![userId] =
                           IF @ = NoRow THEN @ ELSE ExpenseDeleteDelta(@, expense.amount)]
         /\ expenses' = [expenses EXCEPT ![id] = NoRow]
         /\ Answer("deleteExpense", userId, 200, id)
         /\ SnapDelete(userId, "expense", id)
         /\ UNCHANGED nextId

----------------------------------------------------------------------------
(* investmentController *)

createInvestment(userId, body) ==
    IF Falsy(body.title) \/ Falsy(body.dim) \/ Falsy(body.amount)
    THEN /\ Answer("createInvestment", userId, 400, 0)
         /\ UNCHANGED <<investments, account, nextId, snap>>
    ELSE LET parsedAmount == ParseFloat(body.amount) IN
    IF LeqZero(parsedAmount)
    THEN /\ Answer("createInvestment", userId, 400, 0)
         /\ UNCHANGED <<investments, account, nextId, snap>>
    ELSE IF parsedAmount = NotANumber
            \/ (~Falsy(body.date) /\ NewDate(body.date) = InvalidDate)
    THEN /\ Answer("createInvestment", userId, 500, 0)
         /\ UNCHANGED <<investments, account, nextId, snap>>
    ELSE /\ nextId + 1 \in DOMAIN investments
         /\ nextId' = nextId + 1
         /\ investments' = [investments EXCEPT ![nextId + 1] =
                               [userId |-> userId, amount |-> Dec(parsedAmount.n),
                            dim |-> body.dim.s,
                            date |-> IF Falsy(body.date) THEN today
                                     ELSE NewDate(body.date).d]]
         /\ account' = [account EXCEPT ![userId] =
                           InvestmentCreateDelta(LedgerView(account[userId]), parsedAmount.n)]
         /\ Answer("createInvestment", userId, 201, nextId + 1)
         /\ SnapCreate(userId, "investment", nextId + 1)

\* the patch has no amount and no date key: title, area, quantity, purchasePrice,
\* currentValue, description are the fields it can change
updateInvestment(userId, id, body) ==
    LET investment == FindOwned(investments, id, userId) IN
    IF investment = NoRow
    THEN /\ Answer("updateInvestment", userId, 404, id)
         /\ UNCHANGED <<investments, account, nextId, snap>>
    ELSE /\ investments' = [investments EXCEPT
             ![id].dim = IF Falsy(body.dim) THEN @ ELSE body.dim.s]
         /\ Answer("updateInvestment", userId, 200, id)
         /\ SnapClear(userId)
         /\ UNCHANGED <<account, nextId>>

deleteInvestment(userId, id) ==
    LET investment == FindOwned(investments, id, userId) IN
    IF investment = NoRow
    THEN /\ Answer("deleteInvestment", userId, 404, id)
         /\ UNCHANGED <<investments, account, nextId, snap>>
    ELSE /\ account' = [account EXCEPT ![userId] =
                           IF @ = NoRow THEN @ ELSE InvestmentDeleteDelta(@, investment.amount)]
         /\ investments' = [investments EXCEPT ![id] = NoRow]
         /\ Answer("deleteInvestment", userId, 200, id)
         /\ SnapDelete(userId, "investment", id)
         /\ UNCHANGED nextId

----------------------------------------------------------------------------
(* The ledger specification: registration and the income, expense and      *)
(* investment handlers, one request at a time.  The handlers read and      *)
(* write only rows of the caller, so one registered user exercises them;   *)
(* a registration whose account.create fails leaves that user without a    *)
(* ledger row.                                                             *)

LedgerEmails == {"a@x"}
LedgerPassword == <<"p">>
AmountInputs == {Absent, Num(-1), Str("abc"), Num(1), Num(2)}

\* request bodies: every amount with the other required fields present, and each
\* required field missing in turn
LedgerBodies ==
    {[title |-> Str("t"), dim |-> Str("d"), amount |-> a, date |-> Absent] :
        a \in AmountInputs}
    \cup {[title |-> Absent, dim |-> Str("d"), amount |-> Num(1), date |-> Absent],
          [title |-> Str("t"), dim |-> Absent, amount |-> Num(1), date |-> Absent]}

InitResp == [op |-> "none", user |-> 0, status |-> 0, id |-> 0]

Init ==
    /\ users = [u \in UserIds |-> NoRow]
    /\ account = [u \in UserIds |-> NoRow]
    /\ incomes = [i \in RecIds |-> NoRow]
    /\ expenses = [i \in RecIds |-> NoRow]
    /\ investments = [i \in RecIds |-> NoRow]
    /\ nextId = 0
    /\ resp = InitResp
    /\ snap = [u \in UserIds |-> None]
    /\ cards = [i \in RecIds |-> NoRow]
    /\ creq = [p \in Procs |-> None]
    /\ budgets = [i \in RecIds |-> NoRow]
    /\ goals = [i \in RecIds |-> NoRow]
    /\ now = 0
    /\ client = [u \in UserIds |-> None]
    /\ transactions = [i \in RecIds |-> NoRow]
    /\ today = 0
    /\ accounts = <<>>

Register ==
    \E email \in LedgerEmails, fails \in BOOLEAN :
        /\ register(Str(email), Str(LedgerPassword), fails)
        /\ UNCHANGED <<incomes, expenses, investments, nextId, LedgerFrame>>

CreateIncome ==
    \E u \in Registered, body \in LedgerBodies :
        createIncome(u, body) /\ UNCHANGED <<users, client, expenses, investments, LedgerFrame>>

UpdateIncome ==
    \E u \in Registered, id \in RecIds, body \in LedgerBodies :
        updateIncome(u, id, body) /\ UNCHANGED <<users, client, expenses, investments, LedgerFrame>>

DeleteIncome ==
    \E u \in Registered, id \in RecIds :
        deleteIncome(u, id) /\ UNCHANGED <<users, client, expenses, investments, LedgerFrame>>

CreateExpense ==
    \E u \in Registered, body \in LedgerBodies :
        createExpense(u, body) /\ UNCHANGED <<users, client, incomes, investments, LedgerFrame>>

UpdateExpense ==
    \E u \in Registered, id \in RecIds, body \in LedgerBodies :
        updateExpense(u, id, body) /\ UNCHANGED <<users, client, incomes, investments, LedgerFrame>>

DeleteExpense ==
    \E u \in Registered, id \in RecIds :
        deleteExpense(u, id) /\ UNCHANGED <<users, client, incomes, investments, LedgerFrame>>

CreateInvestment ==
    \E u \in Registered, body \in LedgerBodies :
        createInvestment(u, body) /\ UNCHANGED <<users, client, incomes, expenses, LedgerFrame>>

UpdateInvestment ==
    \E u \in Registered, id \in RecIds, body \in LedgerBodies :
        updateInvestment(u, id, body) /\ UNCHANGED <<users, client, incomes, expenses, LedgerFrame>>

DeleteInvestment ==
    \E u \in Registered, id \in RecIds :
        deleteInvestment(u, id) /\ UNCHANGED <<users, client, incomes, expenses, LedgerFrame>>

Next ==
    \/ Register
    \/ CreateIncome \/ UpdateIncome \/ DeleteIncome
    \/ CreateExpense \/ UpdateExpense \/ DeleteExpense
    \/ CreateInvestment \/ UpdateInvestment \/ DeleteInvestment

Spec == Init /\ [][Next]_vars

----------------------------------------------------------------------------
(* Ledger properties *)

CreateOps == {"createIncome", "createExpense", "createInvestment"}

\* the ledger a create of amount a must leave, by the documented signs
Documented(op, row, a) ==
    CASE op = "createIncome" ->
           [row EXCEPT !.totalIncome = @ + a, !.totalBalance = @ + a]
      [] op = "createExpense" ->
           [row EXCEPT !.totalExpense = @ + a, !.totalBalance = @ - a]
      [] op = "createInvestment" ->
           [row EXCEPT !.totalInvested = @ + a, !.totalBalance = @ - a]

CreatedAmount(op, id) ==
    CASE op = "createIncome" -> incomes'[id].amount
      [] op = "createExpense" -> expenses'[id].amount
      [] op = "createInvestment" -> investments'[id].amount

\* C1: every create answered 201 changes the caller's ledger by exactly the
\* created amount with the documented sign (income: totalIncome and totalBalance
\* up; expense: totalExpense up, totalBalance down; investment: totalInvested up,
\* totalBalance down) and leaves every other ledger field as it was.
C1_CreateChangesLedger ==
    [][(resp'.op \in CreateOps /\ resp'.status = 201) =>
          LedgerView(account'[resp'.user]) =
              Documented(resp'.op, LedgerView(account[resp'.user]),
                         CreatedAmount(resp'.op, resp'.id))]_vars

\* C2: a create followed by the delete of the same record, with no other write to
\* the user's data in between, leaves totalBalance and the record kind's total as
\* they were before the create.
C2_RoundTrip ==
    \A u \in UserIds :
        (snap[u] # None /\ snap[u].done) =>
            LET after == LedgerView(account[u]) IN
            /\ after.totalBalance = snap[u].before.totalBalance
            /\ snap[u].kind = "income" => after.totalIncome = snap[u].before.totalIncome
            /\ snap[u].kind = "expense" => after.totalExpense = snap[u].before.totalExpense
            /\ snap[u].kind = "investment" =>
                   after.totalInvested = snap[u].before.totalInvested

----------------------------------------------------------------------------
(* cardController.  A request process runs one handler; every awaited store *)
(* call is one step, and the synchronous code before it belongs to the     *)
(* step of the call it follows.                                            *)

NoAnswer == [op |-> "none", user |-> 0, status |-> 0, id |-> 0]

Idle(p) == creq[p] = None

\* the requests in flight after process p moved to state r (None when it
\* answered): any other request in flight has been interleaved with
Moved(p, r) ==
    [q \in Procs |->
        IF q = p THEN r
        ELSE IF creq[q] = None THEN None ELSE [creq[q] EXCEPT !.solo = FALSE]]

CardAnswer(p, status, id) ==
    resp' = [op |-> creq[p].op, user |-> creq[p].userId, status |-> status,
             id |-> id, isDefault |-> creq[p].body.isDefault, solo |-> creq[p].solo]

\* prisma.card.updateMany({where: {userId, isDefault: true}, data: {isDefault: false}})
UnsetDefaults(table, userId) ==
    [i \in RecIds |->
        IF table[i] # NoRow /\ table[i].userId = userId /\ table[i].isDefault
        THEN [table[i] EXCEPT !.isDefault = FALSE]
        ELSE table[i]]

\* createCard up to its first store call: the required fields and the limit
cardCreateStart(p, userId, body) ==
    LET finalType == IF ~Falsy(body.type) THEN body.type ELSE body.cardType
        r == [op |-> "createCard", userId |-> userId, id |-> 0, body |-> body,
              solo |-> \A q \in Procs : q = p \/ Idle(q),
              pc |-> IF Falsy(body.isDefault) THEN "create" ELSE "updateMany"]
    IN
    /\ Idle(p)
    /\ IF \/ Falsy(finalType) \/ Falsy(body.last4) \/ Falsy(body.cardholderName)
          \/ (~Falsy(body.limit) /\ LeqZero(ParseFloat(body.limit)))
       THEN /\ resp' = [op |-> "createCard", user |-> userId, status |-> 400,
                        id |-> 0, isDefault |-> body.isDefault, solo |-> r.solo]
            /\ creq' = Moved(p, None)
       ELSE /\ resp' = NoAnswer
            /\ creq' = Moved(p, r)
    /\ UNCHANGED <<cards, nextId>>

\* updateCard and deleteCard start with findFirst
cardFindStart(p, op, userId, id, body) ==
    /\ Idle(p)
    /\ creq' = Moved(p, [op |-> op, userId |-> userId, id |-> id, body |-> body,
                         solo |-> \A q \in Procs : q = p \/ Idle(q),
                         pc |-> "findFirst"])
    /\ resp' = NoAnswer
    /\ UNCHANGED <<cards, nextId>>

cardFindFirst(p) ==
    /\ ~Idle(p) /\ creq[p].pc = "findFirst"
    /\ LET card == FindOwned(cards, creq[p].id, creq[p].userId) IN
       IF card = NoRow
       THEN /\ CardAnswer(p, 404, creq[p].id)
            /\ creq' = Moved(p, None)
       ELSE /\ resp' = NoAnswer
            /\ creq' = Moved(p, [creq[p] EXCEPT !.pc =
                   IF creq[p].op = "deleteCard" THEN "delete"
                   ELSE IF ~Falsy(creq[p].body.isDefault) /\ ~card.isDefault
                        THEN "updateMany" ELSE "update"])
    /\ UNCHANGED <<cards, nextId>>

cardUpdateMany(p) ==
    /\ ~Idle(p) /\ creq[p].pc = "updateMany"
    /\ cards' = UnsetDefaults(cards, creq[p].userId)
    /\ creq' = Moved(p, [creq[p] EXCEPT !.pc =
                    IF creq[p].op = "createCard" THEN "create" ELSE "update"])
    /\ resp' = NoAnswer
    /\ UNCHANGED nextId

\* prisma.card.create with isDefault: isDefault ?? false
cardCreate(p) ==
    /\ ~Idle(p) /\ creq[p].pc = "create"
    /\ nextId < MaxRecords
    /\ LET isDefault == creq[p].body.isDefault IN
       IF isDefault = Absent \/ isDefault.t = "bool"
       THEN /\ nextId' = nextId + 1
            /\ cards' = [cards EXCEPT ![nextId + 1] =
                    [userId |-> creq[p].userId,
                     isDefault |-> IF isDefault = Absent THEN FALSE ELSE isDefault.b]]
            /\ CardAnswer(p, 201, nextId + 1)
       ELSE \* a value that is no boolean is refused by the store
            /\ CardAnswer(p, 500, 0)
            /\ UNCHANGED <<cards, nextId>>
    /\ creq' = Moved(p, None)

\* prisma.card.update({where: {id}, data: {..., isDefault when not undefined}})
cardUpdate(p) ==
    /\ ~Idle(p) /\ creq[p].pc = "update"
    /\ LET isDefault == creq[p].body.isDefault
           id == creq[p].id IN
       IF cards[id] = NoRow \/ (isDefault # Absent /\ isDefault.t # "bool")
       THEN /\ CardAnswer(p, 500, id)
            /\ UNCHANGED cards
       ELSE /\ cards' = [cards EXCEPT ![id].isDefault =
                            IF isDefault = Absent THEN @ ELSE isDefault.b]
            /\ CardAnswer(p, 200, id)
    /\ creq' = Moved(p, None)
    /\ UNCHANGED nextId

cardDelete(p) ==
    /\ ~Idle(p) /\ creq[p].pc = "delete"
    /\ IF cards[creq[p].id] = NoRow
       THEN /\ CardAnswer(p, 500, creq[p].id)
            /\ UNCHANGED cards
       ELSE /\ cards' = [cards EXCEPT ![creq[p].id] = NoRow]
            /\ CardAnswer(p, 200, creq[p].id)
    /\ creq' = Moved(p, None)
    /\ UNCHANGED nextId

----------------------------------------------------------------------------
(* The card specification: registration, and card requests of which up to  *)
(* two are in flight at once, their store calls interleaved.               *)

CardEmails == {"a@x"}
IsDefaultInputs == {Absent, Bool(TRUE), Bool(FALSE), Str("yes")}

CardBody(type, last4, limit, isDefault) ==
    [type |-> type, cardType |-> Absent, last4 |-> last4,
     cardholderName |-> Str("n"), limit |-> limit, isDefault |-> isDefault]

CreateCardBodies ==
    {CardBody(Str("visa"), Str("1234"), Absent, d) : d \in IsDefaultInputs}
    \cup {CardBody(Absent, Str("1234"), Absent, Bool(TRUE)),
          CardBody(Str("visa"), Str("1234"), Num(-1), Bool(TRUE))}

UpdateCardBodies ==
    {CardBody(Absent, Absent, Absent, d) : d \in IsDefaultInputs}

CardRegister ==
    \E email \in CardEmails :
        /\ register(Str(email), Str(LedgerPassword), FALSE)
        /\ creq' = [q \in Procs |->
                       IF Idle(q) THEN None ELSE [creq[q] EXCEPT !.solo = FALSE]]
        /\ UNCHANGED <<incomes, expenses, investments, nextId, cards,
                       budgets, goals, now, transactions, today, accounts>>

CreateCardStart ==
    \E p \in Procs, u \in Registered, body \in CreateCardBodies :
        cardCreateStart(p, u, body) /\ UNCHANGED <<users, client, CardFrame>>

UpdateCardStart ==
    \E p \in Procs, u \in Registered, id \in RecIds, body \in UpdateCardBodies :
        cardFindStart(p, "updateCard", u, id, body) /\ UNCHANGED <<users, client, CardFrame>>

DeleteCardStart ==
    \E p \in Procs, u \in Registered, id \in RecIds :
        cardFindStart(p, "deleteCard", u, id, CardBody(Absent, Absent, Absent, Absent))
        /\ UNCHANGED <<users, client, CardFrame>>

CardFindFirst == \E p \in Procs : cardFindFirst(p) /\ UNCHANGED <<users, client, CardFrame>>

CardUpdateMany == \E p \in Procs : cardUpdateMany(p) /\ UNCHANGED <<users, client, CardFrame>>

CardCreate == \E p \in Procs : cardCreate(p) /\ UNCHANGED <<users, client, CardFrame>>

CardUpdate == \E p \in Procs : cardUpdate(p) /\ UNCHANGED <<users, client, CardFrame>>

CardDelete == \E p \in Procs : cardDelete(p) /\ UNCHANGED <<users, client, CardFrame>>

NextCards ==
    \/ CardRegister
    \/ CreateCardStart \/ UpdateCardStart \/ DeleteCardStart
    \/ CardFindFirst \/ CardUpdateMany \/ CardCreate \/ CardUpdate \/ CardDelete

SpecCards == Init /\ [][NextCards]_vars

----------------------------------------------------------------------------
(* Card properties *)

DefaultCards(userId) ==
    {i \in RecIds : cards[i] # NoRow /\ cards[i].userId = userId /\ cards[i].isDefault}

\* C4: when a createCard or updateCard request with isDefault = true has run to
\* completion without interleaving and was answered 201 / 200, exactly one card of
\* the caller is the default, and it is the card the request created or updated.
C4_OneDefaultAfterRequest ==
    (/\ resp.op \in {"createCard", "updateCard"}
     /\ resp.status \in {200, 201}
     /\ resp.isDefault = Bool(TRUE)
     /\ resp.solo)
        => DefaultCards(resp.user) = {resp.id}

\* C5: in every reachable state, also while the store calls of concurrent
\* createCard / updateCard requests interleave, at most one card of each user is
\* the default.
C5_AtMostOneDefault ==
    \A u \in UserIds : Cardinality(DefaultCards(u)) <= 1

----------------------------------------------------------------------------
(* savingsGoalController, one request at a time *)

\* the answer of a goal handler: for contribute and withdraw also the amount
\* asked for and the row as the handler found it
GoalAnswer(op, userId, status, id, amount, before) ==
    resp' = [op |-> op, user |-> userId, status |-> status, id |-> id,
             amount |-> amount, before |-> before]

\* Number(v) of a body value: Number(undefined) is NaN
Number(v) == IF v.t = "num" THEN v ELSE NotANumber

Max(a, b) == IF a >= b THEN a ELSE b

createSavingsGoal(userId, body) ==
    LET parsedTargetAmount == Number(body.targetAmount)
        parsedCurrentAmount ==
            IF Falsy(body.currentAmount) THEN Num(0) ELSE Number(body.currentAmount)
    IN
    IF Falsy(body.title) \/ body.targetAmount = Absent
    THEN /\ GoalAnswer("createSavingsGoal", userId, 400, 0, None, NoRow)
         /\ UNCHANGED <<goals, nextId>>
    ELSE IF LeqZero(parsedTargetAmount)
    THEN /\ GoalAnswer("createSavingsGoal", userId, 400, 0, None, NoRow)
         /\ UNCHANGED <<goals, nextId>>
    ELSE IF parsedCurrentAmount.t = "num" /\ parsedCurrentAmount.n < 0
    THEN /\ GoalAnswer("createSavingsGoal", userId, 400, 0, None, NoRow)
         /\ UNCHANGED <<goals, nextId>>
    ELSE IF parsedTargetAmount = NotANumber \/ parsedCurrentAmount = NotANumber
    THEN /\ GoalAnswer("createSavingsGoal", userId, 500, 0, None, NoRow)
         /\ UNCHANGED <<goals, nextId>>
    ELSE /\ nextId < MaxRecords
         /\ nextId' = nextId + 1
         /\ goals' = [goals EXCEPT ![nextId + 1] =
                         [userId |-> userId,
                          targetAmount |-> Dec(parsedTargetAmount.n),
                          currentAmount |-> Dec(parsedCurrentAmount.n),
                          status |-> "active"]]
         /\ GoalAnswer("createSavingsGoal", userId, 201, nextId + 1, None, NoRow)

updateSavingsGoal(userId, id, body) ==
    LET goal == FindOwned(goals, id, userId) IN
    IF goal = NoRow
    THEN /\ GoalAnswer("updateSavingsGoal", userId, 404, id, None, NoRow)
         /\ UNCHANGED <<goals, nextId>>
    ELSE IF body.currentAmount # Absent /\ Number(body.currentAmount) = NotANumber
    THEN /\ GoalAnswer("updateSavingsGoal", userId, 500, id, None, NoRow)
         /\ UNCHANGED <<goals, nextId>>
    ELSE /\ goals' = [goals EXCEPT
                ![id].currentAmount =
                    IF body.currentAmount = Absent THEN @
                    ELSE Dec(Number(body.currentAmount).n),
                ![id].status = IF Falsy(body.status) THEN @ ELSE body.status.s]
         /\ GoalAnswer("updateSavingsGoal", userId, 200, id, None, NoRow)
         /\ UNCHANGED nextId

\* the data of contribute's update: newAmount as the column stores it, and the
\* status by isComplete, which compares newAmount as computed
ContributeData(goal, amount) ==
    LET newAmount == goal.currentAmount + amount
        isComplete == newAmount >= goal.targetAmount
    IN [goal EXCEPT !.currentAmount = Dec(newAmount),
                    !.status = IF isComplete THEN "completed" ELSE "active"]

contributeSavingsGoal(userId, id, body) ==
    LET goal == FindOwned(goals, id, userId) IN
    IF body.amount = Absent \/ LeqZero(Number(body.amount))
    THEN /\ GoalAnswer("contributeSavingsGoal", userId, 400, id, None, None)
         /\ UNCHANGED <<goals, nextId>>
    ELSE IF goal = NoRow
    THEN /\ GoalAnswer("contributeSavingsGoal", userId, 404, id, None, goal)
         /\ UNCHANGED <<goals, nextId>>
    ELSE IF Number(body.amount) = NotANumber
    THEN /\ GoalAnswer("contributeSavingsGoal", userId, 500, id, None, goal)
         /\ UNCHANGED <<goals, nextId>>
    ELSE /\ goal.currentAmount + Number(body.amount).n <= MaxAmount
         /\ goals' = [goals EXCEPT ![id] = ContributeData(goal, Number(body.amount).n)]
         /\ GoalAnswer("contributeSavingsGoal", userId, 200, id,
                       Number(body.amount).n, goal)
         /\ UNCHANGED nextId

\* the data of withdraw's update: Math.max(0, currentAmount - amount), as the
\* column stores it
WithdrawData(goal, amount) ==
    [goal EXCEPT !.currentAmount = Dec(Max(0, @ - amount))]

withdrawSavingsGoal(userId, id, body) ==
    LET goal == FindOwned(goals, id, userId) IN
    IF body.amount = Absent \/ LeqZero(Number(body.amount))
    THEN /\ GoalAnswer("withdrawSavingsGoal", userId, 400, id, None, None)
         /\ UNCHANGED <<goals, nextId>>
    ELSE IF goal = NoRow
    THEN /\ GoalAnswer("withdrawSavingsGoal", userId, 404, id, None, goal)
         /\ UNCHANGED <<goals, nextId>>
    ELSE IF Number(body.amount) = NotANumber
    THEN /\ GoalAnswer("withdrawSavingsGoal", userId, 500, id, None, goal)
         /\ UNCHANGED <<goals, nextId>>
    ELSE /\ goals' = [goals EXCEPT ![id] = WithdrawData(goal, Number(body.amount).n)]
         /\ GoalAnswer("withdrawSavingsGoal", userId, 200, id,
                       Number(body.amount).n, goal)
         /\ UNCHANGED nextId

deleteSavingsGoal(userId, id) ==
    LET goal == FindOwned(goals, id, userId) IN
    IF goal = NoRow
    THEN /\ GoalAnswer("deleteSavingsGoal", userId, 404, id, None, NoRow)
         /\ UNCHANGED <<goals, nextId>>
    ELSE /\ goals' = [goals EXCEPT ![id] = NoRow]
         /\ GoalAnswer("deleteSavingsGoal", userId, 200, id, None, NoRow)
         /\ UNCHANGED nextId

\* prisma.savingsGoal.findMany({where: {userId}}): the ids of the rows answered
getSavingsGoals(userId) ==
    /\ resp' = [op |-> "getSavingsGoals", user |-> userId, status |-> 200, id |-> 0,
                items |-> {i \in RecIds : goals[i] # NoRow /\ goals[i].userId = userId}]
    /\ UNCHANGED <<goals, nextId>>

----------------------------------------------------------------------------
(* The savings goal specification: one registered user and the goal        *)
(* handlers, one request at a time.                                        *)

GoalEmails == {"a@x"}
ContributeInputs ==
    {Absent, Num(-1), Str("abc"), Num(Whole(30)), Num(Whole(100) - 2)}
WithdrawInputs ==
    {Absent, Num(-1), Str("abc"), Num(Whole(30)), Num(Whole(200)), Num(2)}

GoalCreateBodies ==
    {[title |-> Str("t"), targetAmount |-> Num(Whole(100)), currentAmount |-> c] :
        c \in {Absent, Num(Whole(80)), Num(-1)}}
    \cup {[title |-> Absent, targetAmount |-> Num(Whole(100)), currentAmount |-> Absent],
          [title |-> Str("t"), targetAmount |-> Absent, currentAmount |-> Absent],
          [title |-> Str("t"), targetAmount |-> Num(0), currentAmount |-> Absent],
          [title |-> Str("t"), targetAmount |-> Num(1), currentAmount |-> Absent],
          [title |-> Str("t"), targetAmount |-> Str("abc"), currentAmount |-> Absent]}

GoalUpdateBodies ==
    {[currentAmount |-> Num(0 - Whole(10)), status |-> Absent],
     [currentAmount |-> Absent, status |-> Str("completed")],
     [currentAmount |-> Absent, status |-> Str("paused")],
     [currentAmount |-> Str("abc"), status |-> Absent]}

GoalRegister ==
    \E email \in GoalEmails :
        /\ register(Str(email), Str(LedgerPassword), FALSE)
        /\ UNCHANGED <<incomes, expenses, investments, nextId, cards, creq,
                       budgets, goals, now, transactions, today, accounts>>

CreateSavingsGoal ==
    \E u \in Registered, body \in GoalCreateBodies :
        createSavingsGoal(u, body) /\ UNCHANGED GoalFrame

UpdateSavingsGoal ==
    \E u \in Registered, id \in RecIds, body \in GoalUpdateBodies :
        updateSavingsGoal(u, id, body) /\ UNCHANGED GoalFrame

ContributeSavingsGoal ==
    \E u \in Registered, id \in RecIds, a \in ContributeInputs :
        contributeSavingsGoal(u, id, [amount |-> a]) /\ UNCHANGED GoalFrame

WithdrawSavingsGoal ==
    \E u \in Registered, id \in RecIds, a \in WithdrawInputs :
        withdrawSavingsGoal(u, id, [amount |-> a]) /\ UNCHANGED GoalFrame

DeleteSavingsGoal ==
    \E u \in Registered, id \in RecIds :
        deleteSavingsGoal(u, id) /\ UNCHANGED GoalFrame

GetSavingsGoals ==
    \E u \in Registered : getSavingsGoals(u) /\ UNCHANGED GoalFrame

NextGoals ==
    \/ GoalRegister
    \/ CreateSavingsGoal \/ UpdateSavingsGoal \/ ContributeSavingsGoal
    \/ WithdrawSavingsGoal \/ DeleteSavingsGoal \/ GetSavingsGoals

SpecGoals == Init /\ [][NextGoals]_vars

----------------------------------------------------------------------------
(* Properties of the savings goal specification *)

Contributed == resp.op = "contributeSavingsGoal" /\ resp.status = 200
Withdrawn == resp.op = "withdrawSavingsGoal" /\ resp.status = 200

\* C6: a successful contributeSavingsGoal has amount > 0, sets currentAmount to
\* the previous currentAmount plus the amount, and sets status to 'completed'
\* whenever the new currentAmount is at least targetAmount.
C6_Contribute ==
    Contributed =>
        /\ resp.amount > 0
        /\ goals[resp.id].currentAmount = resp.before.currentAmount + resp.amount
        /\ (goals[resp.id].currentAmount >= goals[resp.id].targetAmount
               => goals[resp.id].status = "completed")

\* C7: a successful withdrawSavingsGoal has amount > 0, sets currentAmount to
\* max(0, previous - amount) and leaves status and every other field as they
\* were; from target 100 and current 80, contribute(30) gives 110 and
\* 'completed', and a following withdraw(200) gives 0, still 'completed'.
C7_Withdraw ==
    /\ Withdrawn =>
        /\ resp.amount > 0
        /\ goals[resp.id] =
              [resp.before EXCEPT !.currentAmount = Max(0, @ - resp.amount)]
    /\ (Contributed /\ resp.amount = Whole(30)
        /\ resp.before.targetAmount = Whole(100)
        /\ resp.before.currentAmount = Whole(80)) =>
           /\ goals[resp.id].currentAmount = Whole(110)
           /\ goals[resp.id].status = "completed"
    /\ (Withdrawn /\ resp.amount = Whole(200)
        /\ resp.before.targetAmount = Whole(100)
        /\ resp.before.currentAmount = Whole(110)
        /\ resp.before.status = "completed") =>
           /\ goals[resp.id].currentAmount = 0
           /\ goals[resp.id].status = "completed"

----------------------------------------------------------------------------
(* The budget routes: index.ts mounts dashboardRoutes at /api before       *)
(* budgetRoutes at /api/budgets, and express answers from the first router *)
(* that has the route.                                                     *)

Mounts ==
    << [router |-> "dashboardRoutes",
        routes |-> {<<"GET", "/api/budgets">>, <<"POST", "/api/budgets">>,
                    <<"PUT", "/api/budgets/:id">>}],
       [router |-> "budgetRoutes",
        routes |-> {<<"GET", "/api/budgets">>, <<"POST", "/api/budgets">>,
                    <<"PUT", "/api/budgets/:id">>,
                    <<"DELETE", "/api/budgets/:id">>}] >>

\* the router that answers a route
Dispatch(route) ==
    LET hits == {i \in DOMAIN Mounts : route \in Mounts[i].routes}
    IN Mounts[CHOOSE i \in hits : \A j \in hits : i <= j].router

\* findMany({where: {userId}}) of either controller
ListBudgets(op, userId) ==
    /\ resp' = [op |-> op, user |-> userId, status |-> 200, id |-> 0,
                items |-> {i \in RecIds : budgets[i] # NoRow /\ budgets[i].userId = userId}]
    /\ UNCHANGED <<budgets, nextId>>

dashboard_getBudgets(userId) == ListBudgets("dashboard.getBudgets", userId)

dashboard_createBudget(userId, body) ==
    IF Falsy(body.name) \/ Falsy(body.limit)
    THEN Answer("dashboard.createBudget", userId, 400, 0) /\ UNCHANGED <<budgets, nextId>>
    ELSE IF ParseFloat(body.limit) = NotANumber
    THEN Answer("dashboard.createBudget", userId, 500, 0) /\ UNCHANGED <<budgets, nextId>>
    ELSE /\ nextId < MaxRecords
         /\ nextId' = nextId + 1
         /\ budgets' = [budgets EXCEPT ![nextId + 1] =
                [userId |-> userId, limit |-> Dec(ParseFloat(body.limit).n), spent |-> 0]]
         /\ Answer("dashboard.createBudget", userId, 201, nextId + 1)

\* prisma.budget.update({where: {id}}): the caller is not part of the filter
dashboard_updateBudget(userId, id, body) ==
    IF budgets[id] = NoRow
    THEN Answer("dashboard.updateBudget", userId, 500, id) /\ UNCHANGED <<budgets, nextId>>
    ELSE IF \/ body.spent # Absent /\ ParseFloat(body.spent) = NotANumber
            \/ body.limit # Absent /\ ParseFloat(body.limit) = NotANumber
    THEN Answer("dashboard.updateBudget", userId, 500, id) /\ UNCHANGED <<budgets, nextId>>
    ELSE /\ budgets' = [budgets EXCEPT
                ![id].spent = IF body.spent = Absent THEN @
                             ELSE Dec(ParseFloat(body.spent).n),
                ![id].limit = IF body.limit = Absent THEN @
                             ELSE Dec(ParseFloat(body.limit).n)]
         /\ Answer("dashboard.updateBudget", userId, 200, id)
         /\ UNCHANGED nextId

budget_getBudgets(userId) == ListBudgets("budget.getBudgets", userId)

budget_createBudget(userId, body) ==
    IF Falsy(body.name) \/ Falsy(body.limit)
    THEN Answer("budget.createBudget", userId, 400, 0) /\ UNCHANGED <<budgets, nextId>>
    ELSE IF LeqZero(ParseFloat(body.limit))
    THEN Answer("budget.createBudget", userId, 400, 0) /\ UNCHANGED <<budgets, nextId>>
    ELSE IF ParseFloat(body.limit) = NotANumber
    THEN Answer("budget.createBudget", userId, 500, 0) /\ UNCHANGED <<budgets, nextId>>
    ELSE /\ nextId < MaxRecords
         /\ nextId' = nextId + 1
         /\ budgets' = [budgets EXCEPT ![nextId + 1] =
                [userId |-> userId, limit |-> Dec(ParseFloat(body.limit).n), spent |-> 0]]
         /\ Answer("budget.createBudget", userId, 201, nextId + 1)

budget_updateBudget(userId, id, body) ==
    LET budget == FindOwned(budgets, id, userId) IN
    IF budget = NoRow
    THEN Answer("budget.updateBudget", userId, 404, id) /\ UNCHANGED <<budgets, nextId>>
    ELSE IF \/ body.spent # Absent /\ ParseFloat(body.spent) = NotANumber
            \/ ~Falsy(body.limit) /\ ParseFloat(body.limit) = NotANumber
    THEN Answer("budget.updateBudget", userId, 500, id) /\ UNCHANGED <<budgets, nextId>>
    ELSE /\ budgets' = [budgets EXCEPT
                ![id].spent = IF body.spent = Absent THEN @
                             ELSE Dec(ParseFloat(body.spent).n),
                ![id].limit = IF Falsy(body.limit) THEN @
                             ELSE Dec(ParseFloat(body.limit).n)]
         /\ Answer("budget.updateBudget", userId, 200, id)
         /\ UNCHANGED nextId

budget_deleteBudget(userId, id) ==
    LET budget == FindOwned(budgets, id, userId) IN
    IF budget = NoRow
    THEN Answer("budget.deleteBudget", userId, 404, id) /\ UNCHANGED <<budgets, nextId>>
    ELSE /\ budgets' = [budgets EXCEPT ![id] = NoRow]
         /\ Answer("budget.deleteBudget", userId, 200, id)
         /\ UNCHANGED nextId

\* the four budget routes as the application serves them
GET_budgets(userId) ==
    IF Dispatch(<<"GET", "/api/budgets">>) = "dashboardRoutes"
    THEN dashboard_getBudgets(userId) ELSE budget_getBudgets(userId)

POST_budgets(userId, body) ==
    IF Dispatch(<<"POST", "/api/budgets">>) = "dashboardRoutes"
    THEN dashboard_createBudget(userId, body) ELSE budget_createBudget(userId, body)

PUT_budgets_id(userId, id, body) ==
    IF Dispatch(<<"PUT", "/api/budgets/:id">>) = "dashboardRoutes"
    THEN dashboard_updateBudget(userId, id, body)
    ELSE budget_updateBudget(userId, id, body)

DELETE_budgets_id(userId, id) ==
    /\ Dispatch(<<"DELETE", "/api/budgets/:id">>) = "budgetRoutes"
    /\ budget_deleteBudget(userId, id)

----------------------------------------------------------------------------
(* The ownership specification: two registered users, the budget routes    *)
(* and the savings goal handlers, one request at a time.                   *)

OwnEmails == {"a@x", "b@x"}
OwnBudgetBodies ==
    {[name |-> n, limit |-> l, spent |-> Absent] :
        n \in {Absent, Str("b")},
        l \in {Absent, Num(Whole(1)), Num(0 - Whole(1)), Str("abc")}}
OwnBudgetPatches ==
    {[name |-> Absent, limit |-> l, spent |-> sp] :
        l \in {Absent, Num(Whole(2)), Num(0 - Whole(2))},
        sp \in {Absent, Num(Whole(1)), Str("abc")}}
OwnGoalBodies ==
    {[title |-> Str("t"), targetAmount |-> Num(Whole(100)), currentAmount |-> Absent]}
OwnGoalPatches == {[currentAmount |-> Num(Whole(80)), status |-> Absent]}
OwnAmountInputs == {Absent, Num(Whole(100))}

OwnRegister ==
    \E email \in OwnEmails :
        /\ register(Str(email), Str(LedgerPassword), FALSE)
        /\ UNCHANGED <<incomes, expenses, investments, nextId, cards, creq,
                       budgets, goals, now, transactions, today, accounts>>

OwnGetBudgets ==
    \E u \in Registered : GET_budgets(u) /\ UNCHANGED BudgetFrame

OwnPostBudget ==
    \E u \in Registered, body \in OwnBudgetBodies :
        POST_budgets(u, body) /\ UNCHANGED BudgetFrame

OwnPutBudget ==
    \E u \in Registered, id \in RecIds, body \in OwnBudgetPatches :
        PUT_budgets_id(u, id, body) /\ UNCHANGED BudgetFrame

OwnDeleteBudget ==
    \E u \in Registered, id \in RecIds :
        DELETE_budgets_id(u, id) /\ UNCHANGED BudgetFrame

OwnCreateGoal ==
    \E u \in Registered, body \in OwnGoalBodies :
        createSavingsGoal(u, body) /\ UNCHANGED GoalFrame

OwnUpdateGoal ==
    \E u \in Registered, id \in RecIds, body \in OwnGoalPatches :
        updateSavingsGoal(u, id, body) /\ UNCHANGED GoalFrame

OwnContributeGoal ==
    \E u \in Registered, id \in RecIds, a \in OwnAmountInputs :
        contributeSavingsGoal(u, id, [amount |-> a]) /\ UNCHANGED GoalFrame

OwnWithdrawGoal ==
    \E u \in Registered, id \in RecIds, a \in OwnAmountInputs :
        withdrawSavingsGoal(u, id, [amount |-> a]) /\ UNCHANGED GoalFrame

OwnDeleteGoal ==
    \E u \in Registered, id \in RecIds :
        deleteSavingsGoal(u, id) /\ UNCHANGED GoalFrame

OwnGetGoals ==
    \E u \in Registered : getSavingsGoals(u) /\ UNCHANGED GoalFrame

NextOwn ==
    \/ OwnRegister
    \/ OwnGetBudgets \/ OwnPostBudget \/ OwnPutBudget \/ OwnDeleteBudget
    \/ OwnCreateGoal \/ OwnUpdateGoal \/ OwnContributeGoal \/ OwnWithdrawGoal
    \/ OwnDeleteGoal \/ OwnGetGoals

SpecOwn == Init /\ [][NextOwn]_vars

----------------------------------------------------------------------------
(* Properties of the ownership specification *)

BudgetWriteOps == {"dashboard.updateBudget", "budget.updateBudget", "budget.deleteBudget"}
GoalWriteOps == {"updateSavingsGoal", "contributeSavingsGoal",
                 "withdrawSavingsGoal", "deleteSavingsGoal"}
BudgetListOps == {"dashboard.getBudgets", "budget.getBudgets"}

\* record id of the table exists and belongs to somebody other than userId
Foreign(table, id, userId) ==
    id \in DOMAIN table /\ table[id] # NoRow /\ table[id].userId # userId

\* C3: a request by user A that passes body validation and names, through a
\* mounted update, delete, contribute or withdraw route (PUT /api/budgets/:id
\* included), a record owned by another user B is answered 404 and leaves the
\* record as it was; a list answered to A holds only records of A.
C3_OwnershipIsolation ==
    [][/\ (resp'.op \in BudgetWriteOps /\ resp'.status # 400
           /\ Foreign(budgets, resp'.id, resp'.user))
          => (resp'.status = 404 /\ budgets'[resp'.id] = budgets[resp'.id])
       /\ (resp'.op \in GoalWriteOps /\ resp'.status # 400
           /\ Foreign(goals, resp'.id, resp'.user))
          => (resp'.status = 404 /\ goals'[resp'.id] = goals[resp'.id])
       /\ resp'.op \in BudgetListOps
          => \A i \in resp'.items : budgets'[i].userId = resp'.user
       /\ resp'.op = "getSavingsGoals"
          => \A i \in resp'.items : goals'[i].userId = resp'.user]_vars

----------------------------------------------------------------------------
(* The request gate (middleware/auth.ts, utils/auth.ts)                    *)
(* An Authorization header is a sequence of atoms: words, single spaces    *)
(* and tokens; the empty sequence is a header that is absent or empty.     *)

Sp == [sp |-> TRUE]
W(s) == [w |-> s]
IsJwt(a) == DOMAIN a = {"userId", "exp", "signedBy"}

RECURSIVE Split(_)
\* authHeader.split(' '): the segments between the spaces, empty ones included
Split(h) ==
    IF \A i \in 1..Len(h) : h[i] # Sp
    THEN <<h>>
    ELSE LET i == CHOOSE k \in 1..Len(h) :
                      h[k] = Sp /\ \A j \in 1..(k - 1) : h[j] # Sp
         IN <<SubSeq(h, 1, i - 1)>> \o Split(SubSeq(h, i + 1, Len(h)))

Null == [null |-> TRUE]

\* an extraction that takes the last segment of any header that starts with Bearer
extractTokenFromHeader_AnyLength(authHeader) ==
    IF authHeader = <<>> THEN Null
    ELSE LET parts == Split(authHeader) IN
         IF parts[1] # <<W("Bearer")>> THEN Null
         ELSE [token |-> parts[Len(parts)]]

\* null, or the second of exactly two segments of which the first is Bearer
extractTokenFromHeader(authHeader) ==
    IF authHeader = <<>> THEN Null
    ELSE LET parts == Split(authHeader) IN
         IF Len(parts) # 2 \/ parts[1] # <<W("Bearer")>> THEN Null
         ELSE [token |-> parts[2]]

\* a verification that does not look at the clock
verifyToken_NoExpiry(token, t) ==
    IF /\ Len(token) = 1 /\ IsJwt(token[1])
       /\ token[1].signedBy = "JWT_SECRET"
    THEN [userId |-> token[1].userId]
    ELSE Null

\* jwt.verify(token, JWT_SECRET) at time t: the payload's userId, or null when
\* the signature is not ours or the token has expired
verifyToken(token, t) ==
    IF /\ Len(token) = 1 /\ IsJwt(token[1])
       /\ token[1].signedBy = "JWT_SECRET"
       /\ t < token[1].exp
    THEN [userId |-> token[1].userId]
    ELSE Null

\* what authMiddleware does with a header at time t: a 401, or next() with
\* req.userId
authMiddleware(authHeader, t) ==
    LET token == extractTokenFromHeader(authHeader) IN
    IF token = Null \/ token.token = <<>>
    THEN [status |-> 401, error |-> "Missing authentication token"]
    ELSE LET decoded == verifyToken(token.token, t) IN
         IF decoded = Null
         THEN [status |-> 401, error |-> "Invalid or expired token"]
         ELSE [status |-> 0, userId |-> decoded.userId]

----------------------------------------------------------------------------
(* authController.login and updateProfile *)

login(email, password) ==
    IF Falsy(email) \/ Falsy(password)
    THEN /\ AuthAnswer("login", 0, 400, 0, email, password, None)
         /\ UNCHANGED client
    ELSE IF FindUserByEmail(email) = {}
    THEN /\ AuthAnswer("login", 0, 401, 0, email, password, None)
         /\ UNCHANGED client
    ELSE LET id == CHOOSE u \in FindUserByEmail(email) : TRUE IN
         IF ~comparePassword(password.s, users[id].password)
         THEN /\ AuthAnswer("login", 0, 401, 0, email, password, None)
              /\ UNCHANGED client
         ELSE /\ AuthAnswer("login", id, 200, id, email, password,
                            generateToken(id, now))
              /\ client' = [client EXCEPT ![id] =
                    IF @ = None THEN @ ELSE [@ EXCEPT !.token = generateToken(id, now)]]

\* the answer of a protected route: the header sent, and the error of a 401
GateAnswer(op, userId, status, header, error) ==
    resp' = [op |-> op, user |-> userId, status |-> status, id |-> 0,
             header |-> header, error |-> error]

updateProfile(userId, body, header) ==
    IF userId \notin Registered
    THEN /\ GateAnswer("updateProfile", userId, 500, header, "Failed to update profile")
         /\ UNCHANGED users
    ELSE /\ users' = [users EXCEPT ![userId].name =
                         IF Falsy(body.name) THEN @ ELSE body.name]
         /\ GateAnswer("updateProfile", userId, 200, header, "")

\* PUT /api/auth/profile: authMiddleware, then updateProfile
PUT_profile(header, body) ==
    LET gate == authMiddleware(header, now) IN
    IF gate.status = 401
    THEN /\ GateAnswer("authMiddleware", 0, 401, header, gate.error)
         /\ UNCHANGED users
    ELSE updateProfile(gate.userId, body, header)

----------------------------------------------------------------------------
(* register, step by step: the lookup, then the writes *)

registerStart(p, email, password) ==
    /\ Idle(p)
    /\ creq' = [creq EXCEPT ![p] =
                   [op |-> "register", email |-> email, password |-> password,
                    pc |-> "findUnique"]]

registerFindUnique(p) ==
    /\ ~Idle(p) /\ creq[p].pc = "findUnique"
    /\ LET status == registerRejects(creq[p].email, creq[p].password) IN
       IF status # 0
       THEN /\ AuthAnswer("register", 0, status, 0,
                          creq[p].email, creq[p].password, None)
            /\ creq' = [creq EXCEPT ![p] = None]
       ELSE /\ creq' = [creq EXCEPT ![p].pc = "create"]
            /\ UNCHANGED resp

registerCreate(p, accountCreateFails) ==
    /\ ~Idle(p) /\ creq[p].pc = "create"
    /\ userCreate(creq[p].email, creq[p].password, accountCreateFails)
    /\ creq' = [creq EXCEPT ![p] = None]

----------------------------------------------------------------------------
(* The authentication specification: register step by step from two        *)
(* request processes, login, the gated profile update, and the clock.      *)

AuthEmails == {"a@x"}
Long == [i \in 1..BcryptMaxBytes |-> "x"]
RegisterPasswords == {Absent, Str(<<"p">>), Str(Long \o <<"a">>)}
LoginPasswords == RegisterPasswords \cup {Str(<<"q">>), Str(Long \o <<"b">>)}
EmailInputs == {Absent} \cup {Str(e) : e \in AuthEmails}
NameInputs == {Absent, Str("n")}

\* the tokens a client can send: the ones issued and still held, and the same
\* signed with another key
HeldTokens == {client[u].token : u \in {v \in UserIds : client[v] # None}}
TokenInputs == HeldTokens \cup {[tok EXCEPT !.signedBy = "other"] : tok \in HeldTokens}

HeaderInputs ==
    {<<>>, <<W("Bearer")>>, <<W("Bearer"), Sp>>, <<W("Bearer"), Sp, W("garbage")>>}
    \cup {<<W("Bearer"), Sp, tok>> : tok \in TokenInputs}
    \cup {<<W("Basic"), Sp, tok>> : tok \in HeldTokens}
    \cup {<<W("Bearer"), Sp, Sp, tok>> : tok \in HeldTokens}
    \cup {<<tok>> : tok \in HeldTokens}

AuthRegisterStart ==
    \E p \in Procs, email \in {Str(e) : e \in AuthEmails}, password \in RegisterPasswords :
        /\ registerStart(p, email, password)
        /\ UNCHANGED <<users, account, client, resp, now, AuthFrame>>

AuthRegisterFindUnique ==
    \E p \in Procs :
        /\ registerFindUnique(p)
        /\ UNCHANGED <<users, account, client, now, AuthFrame>>

AuthRegisterCreate ==
    \E p \in Procs, fails \in BOOLEAN :
        /\ registerCreate(p, fails)
        /\ UNCHANGED <<now, AuthFrame>>

Login ==
    \E email \in EmailInputs, password \in LoginPasswords :
        /\ login(email, password)
        /\ UNCHANGED <<users, account, creq, now, AuthFrame>>

PutProfile ==
    \E header \in HeaderInputs, name \in NameInputs :
        /\ PUT_profile(header, [name |-> name])
        /\ UNCHANGED <<account, client, creq, now, AuthFrame>>

Tick ==
    /\ now < MaxNow
    /\ now' = now + 1
    /\ UNCHANGED <<users, account, client, creq, resp, AuthFrame>>

NextAuth ==
    \/ AuthRegisterStart \/ AuthRegisterFindUnique \/ AuthRegisterCreate
    \/ Login \/ PutProfile \/ Tick

SpecAuth == Init /\ [][NextAuth]_vars

----------------------------------------------------------------------------
(* Properties of the authentication specification *)

\* this step answered a request to the gated route
GateStep ==
    resp'.op \in {"authMiddleware", "updateProfile"} /\ now' = now /\ creq' = creq

\* this step answered a login
LoginStep == resp'.op = "login" /\ now' = now /\ creq' = creq

\* the step was answered 401 with this error by the gate, and wrote nothing
Rejected(error) ==
    /\ resp'.op = "authMiddleware" /\ resp'.status = 401 /\ resp'.error = error
    /\ UNCHANGED <<users, account, client, incomes, expenses, investments,
                   cards, budgets, goals>>

\* the header is absent or is not two space-separated segments, the first Bearer
NotTwoBearer(h) ==
    h = <<>> \/ Len(Split(h)) # 2 \/ Split(h)[1] # <<W("Bearer")>>

\* the segment is a token signed with JWT_SECRET that has not expired at time t
ValidAt(segment, t) ==
    /\ Len(segment) = 1 /\ IsJwt(segment[1])
    /\ segment[1].signedBy = "JWT_SECRET" /\ segment[1].exp > t

\* C8, as amended: a request to a protected route whose Authorization header is
\* absent, is not exactly two space-separated segments with scheme 'Bearer', or
\* has an empty token segment is rejected with 401 'Missing authentication
\* token'; one whose token has a bad signature or has expired is rejected with
\* 401 'Invalid or expired token'; in both cases the handler does not run and no
\* stored state changes; otherwise the handler runs with the token's userId.
C8_RequestGate ==
    [][GateStep =>
          LET h == resp'.header IN
          IF NotTwoBearer(h) \/ Split(h)[2] = <<>>
          THEN Rejected("Missing authentication token")
          ELSE IF ~ValidAt(Split(h)[2], now)
          THEN Rejected("Invalid or expired token")
          ELSE resp'.op = "updateProfile" /\ resp'.user = Split(h)[2][1].userId]_vars

\* C8, as stated: a header that is absent or not exactly two space-separated
\* segments with scheme 'Bearer' gives 401 'Missing authentication token'; any
\* other header whose token fails validation gives 401 'Invalid or expired
\* token'; neither runs the handler or changes stored state; otherwise the
\* handler runs with the token's userId.
C8_RequestGateAsStated ==
    [][GateStep =>
          LET h == resp'.header IN
          IF NotTwoBearer(h)
          THEN Rejected("Missing authentication token")
          ELSE IF ~ValidAt(Split(h)[2], now)
          THEN Rejected("Invalid or expired token")
          ELSE resp'.op = "updateProfile" /\ resp'.user = Split(h)[2][1].userId]_vars

\* an expired token of the registered user has been turned away
C8_Witness ==
    /\ resp.op = "authMiddleware"
    /\ resp.error = "Invalid or expired token"
    /\ Len(resp.header) = 3
    /\ IsJwt(resp.header[3])
    /\ resp.header[3].signedBy = "JWT_SECRET"
    /\ resp.header[3].exp <= now
    /\ users[resp.header[3].userId] # NoRow

\* C9: after a successful registration with (email, password), a later login
\* with that email and password is answered 200 with a token the request gate
\* accepts as that user's id, and a login with that email and a different
\* password is answered 401.
C9_LoginAfterRegister ==
    [][LoginStep =>
          \A u \in UserIds :
              (client[u] # None /\ users[u].email = resp'.email
               /\ ~Falsy(resp'.password)) =>
                  IF resp'.password.s = client[u].password
                  THEN /\ resp'.status = 200
                       /\ authMiddleware(<<W("Bearer"), Sp, resp'.token>>, now)
                              = [status |-> 0, userId |-> u]
                  ELSE resp'.status = 401]_vars

UniqueEmails ==
    \A u, v \in Registered : users[u].email = users[v].email => u = v

\* C10: a register whose lookup runs when a user with its email exists is
\* answered 409 and creates neither a user nor a ledger row; a register with
\* email or password missing is answered 400 and creates nothing; no two users
\* share an email.
C10_RegisterRejects ==
    [][/\ \A p \in Procs :
            (creq[p] # None /\ creq[p].pc = "findUnique" /\ creq'[p] # creq[p]) =>
                /\ (Falsy(creq[p].email) \/ Falsy(creq[p].password)) =>
                      /\ creq'[p] = None
                      /\ resp'.op = "register" /\ resp'.status = 400
                      /\ UNCHANGED <<users, account>>
                /\ (~Falsy(creq[p].email) /\ ~Falsy(creq[p].password)
                    /\ FindUserByEmail(creq[p].email) # {}) =>
                      /\ creq'[p] = None
                      /\ resp'.op = "register" /\ resp'.status = 409
                      /\ UNCHANGED <<users, account>>
       /\ UniqueEmails']_vars

\* a register for the email of an existing user has been answered 409
C10_Witness ==
    /\ resp.op = "register"
    /\ resp.status = 409
    /\ FindUserByEmail(resp.email) # {}
    /\ Cardinality(Registered) = 1

----------------------------------------------------------------------------
(* Paginated lists: getIncomes, getExpenses, getInvestments and            *)
(* getTransactions.  findMany and count are taken as one read of the       *)
(* table.                                                                  *)

\* parseInt(v) || fallback of a query parameter
ParseIntOr(v, fallback) ==
    IF v.t = "num" /\ v.n # 0 THEN v.n ELSE fallback

\* the ids of the rows a where-clause {userId, ...(dim && {dim})} selects
Matching(table, userId, dim) ==
    {id \in DOMAIN table :
        /\ table[id] # NoRow
        /\ table[id].userId = userId
        /\ (Falsy(dim) \/ table[id].dim = dim.s)}

\* orderBy: {date: 'desc'}: the orders the store may answer in; rows of one
\* date come in any order
RECURSIVE DateDesc(_, _)
DateDesc(table, ids) ==
    IF ids = {} THEN {<<>>}
    ELSE LET latest == {x \in ids : \A y \in ids : table[x].date >= table[y].date}
         IN UNION {{<<x>> \o q : q \in DateDesc(table, ids \ {x})} : x \in latest}

Min(a, b) == IF a <= b THEN a ELSE b

\* skip and take of findMany on an ordered answer
SkipTake(o, skip, take) == SubSeq(o, skip + 1, Min(skip + take, Len(o)))

\* a page count that drops the last, partly filled page
Pages_Floor(total, limit) == total \div limit

\* Math.ceil(total / limit), limit >= 1
Pages(total, limit) == (total + limit - 1) \div limit

\* the body the four list handlers share; a negative skip is refused by the
\* store
paginate(op, table, userId, query) ==
    LET page == ParseIntOr(query.page, 1)
        limit == ParseIntOr(query.limit, 10)
        skip == (page - 1) * limit
        ids == Matching(table, userId, query.dim)
        total == Cardinality(ids)
    IN IF skip < 0
       THEN resp' = [op |-> op, user |-> userId, status |-> 500, id |-> 0,
                     query |-> query]
       ELSE \E o \in DateDesc(table, ids) :
            resp' = [op |-> op, user |-> userId, status |-> 200, id |-> 0,
                     query |-> query,
                     items |-> SkipTake(o, skip, limit),
                     pagination |-> [page |-> page, limit |-> limit, total |-> total,
                                     pages |-> Pages(total, limit)]]

getIncomes(userId, query) == paginate("getIncomes", incomes, userId, query)

getExpenses(userId, query) == paginate("getExpenses", expenses, userId, query)

getInvestments(userId, query) == paginate("getInvestments", investments, userId, query)

\* getTransactions reads no filter from the query
getTransactions(userId, query) ==
    paginate("getTransactions", transactions, userId, [query EXCEPT !.dim = Absent])

----------------------------------------------------------------------------
(* The list specification: the tables hold any rows that creates can have  *)
(* left, one list request is in flight, and its handler answers it.        *)

ListRows == 3           \* rows per table

\* two users as register leaves them
ReadUsers ==
    [u \in UserIds |->
        LET email == IF u = 1 THEN "a@x" ELSE "b@x"
        IN [email |-> Str(email), password |-> hashPassword(LedgerPassword),
            name |-> [t |-> "localPart", of |-> email]]]

ListIds == 1..ListRows

\* a row of another user, and rows of user 1 over two dims and two days
ListRowChoices ==
    {NoRow, [userId |-> 2, amount |-> Cent, dim |-> "a", date |-> 0]}
    \cup {[userId |-> 1, amount |-> Cent, dim |-> d, date |-> t] :
            d \in {"a", "b"}, t \in {0, 1}}

Queries ==
    {[page |-> pg, limit |-> l, dim |-> d] :
        pg \in {Absent, Num(1), Num(2), Num(4), Num(-1)},
        l \in {Absent, Num(1), Num(2)},
        d \in {Absent, Str("a")}}

ListRequests ==
    {[op |-> op, user |-> u, query |-> q] :
        op \in {"getIncomes", "getExpenses", "getInvestments", "getTransactions"},
        u \in UserIds, q \in Queries}

InitList ==
    /\ users = ReadUsers
    /\ account = [u \in UserIds |-> ZeroAccount]
    /\ \E T \in [ListIds -> ListRowChoices] :
          /\ incomes = T /\ expenses = T /\ investments = T /\ transactions = T
    /\ nextId = ListRows
    /\ resp = InitResp
    /\ snap = [u \in UserIds |-> None]
    /\ cards = [i \in RecIds |-> NoRow]
    /\ \E r \in ListRequests : creq = [p \in Procs |-> IF p = 1 THEN r ELSE None]
    /\ budgets = [i \in RecIds |-> NoRow]
    /\ goals = [i \in RecIds |-> NoRow]
    /\ now = 0
    /\ client = [u \in UserIds |-> None]
    /\ today = 1
    /\ accounts = <<>>

ReadFrame == <<users, account, incomes, expenses, investments, nextId, snap, cards,
               budgets, goals, now, client, transactions, today, accounts>>

\* process p's request is one for handler op, and is answered now
Serve(p, op) ==
    /\ creq[p] # None /\ creq[p].op = op
    /\ creq' = [creq EXCEPT ![p] = None]
    /\ UNCHANGED ReadFrame

GetIncomes ==
    \E p \in Procs : Serve(p, "getIncomes") /\ getIncomes(creq[p].user, creq[p].query)

GetExpenses ==
    \E p \in Procs : Serve(p, "getExpenses") /\ getExpenses(creq[p].user, creq[p].query)

GetInvestments ==
    \E p \in Procs :
        Serve(p, "getInvestments") /\ getInvestments(creq[p].user, creq[p].query)

GetTransactions ==
    \E p \in Procs :
        Serve(p, "getTransactions") /\ getTransactions(creq[p].user, creq[p].query)

NextList == GetIncomes \/ GetExpenses \/ GetInvestments \/ GetTransactions

SpecList == InitList /\ [][NextList]_vars

----------------------------------------------------------------------------
(* List properties *)

ListOps == {"getIncomes", "getExpenses", "getInvestments", "getTransactions"}

TableOf(op) ==
    CASE op = "getIncomes" -> incomes
      [] op = "getExpenses" -> expenses
      [] op = "getInvestments" -> investments
      [] op = "getTransactions" -> transactions

\* the filter a list handler applies: getTransactions has none
FilterOf(r) == IF r.op = "getTransactions" THEN Absent ELSE r.query.dim

\* a list request with page >= 1 and limit >= 1 has been answered
Listed ==
    /\ resp.op \in ListOps
    /\ resp.query.page.t = "num" /\ resp.query.page.n >= 1
    /\ resp.query.limit.t = "num" /\ resp.query.limit.n >= 1

\* C11: a list requested with page p >= 1 and limit l >= 1 is answered with
\* total = the number of the caller's rows matching the filter, pages =
\* ceil(total / l), and as items the rows at offsets (p-1)*l .. p*l-1 of a
\* date-descending order of those rows; for p > pages the items are empty.
C11_Pagination ==
    Listed =>
        LET p == resp.query.page.n
            l == resp.query.limit.n
            table == TableOf(resp.op)
            rows == {id \in DOMAIN table :
                        /\ table[id] # NoRow /\ table[id].userId = resp.user
                        /\ (FilterOf(resp) = Absent \/ table[id].dim = FilterOf(resp).s)}
            total == Cardinality(rows)
            items == resp.items
            shown == {items[i] : i \in 1..Len(items)}
            pg == resp.pagination
        IN /\ resp.status = 200
           /\ pg.total = total
           /\ pg.pages * l >= total /\ (pg.pages - 1) * l < total
           /\ shown \subseteq rows /\ Cardinality(shown) = Len(items)
           /\ Len(items) = IF total - (p - 1) * l <= 0 THEN 0
                           ELSE IF total - (p - 1) * l >= l THEN l
                           ELSE total - (p - 1) * l
           /\ \A i \in 1..(Len(items) - 1) :
                  table[items[i]].date >= table[items[i + 1]].date
           /\ \E before \in SUBSET (rows \ shown) :
                  /\ Cardinality(before) = IF (p - 1) * l <= total THEN (p - 1) * l
                                           ELSE total
                  /\ \A b \in before, x \in shown : table[b].date >= table[x].date
                  /\ \A a \in (rows \ shown) \ before, x \in shown :
                         table[a].date <= table[x].date
           /\ (p > pg.pages => items = <<>>)

\* the second page of three rows, two to a page, has been answered, with its one
\* row
C11_Witness ==
    /\ Listed
    /\ resp.query.page.n = 2 /\ resp.query.limit.n = 2
    /\ resp.pagination.total = 3 /\ resp.pagination.pages = 2
    /\ Len(resp.items) = 1

----------------------------------------------------------------------------
(* dashboardController.getDashboard.  The tables are read once; dates are  *)
(* calendar days of the server's clock.                                    *)

WeekLength == 7         \* Array.from({length: 7})
MonthLength == 30       \* thirtyDaysAgo
TopCategories == 5      \* slice(0, 5)
RecentCount == 10       \* slice(0, 10)

DayNames == <<"Sun", "Mon", "Tue", "Wed", "Thu", "Fri", "Sat">>

\* date.getDay() of calendar day d: 1970-01-01 was a Thursday
GetDay(d) == (d + 4) % 7

\* rows.reduce((s, r) => s + Number(r.amount), 0) over the rows ids of a table
RECURSIVE SumAmount(_, _)
SumAmount(table, ids) ==
    IF ids = {} THEN 0
    ELSE LET x == CHOOSE y \in ids : TRUE
         IN table[x].amount + SumAmount(table, ids \ {x})

\* a rounding that drops the fraction of a cent
RoundedSavings_Truncate(balanceLeft) ==
    LET tenths == Max(0, balanceLeft)
    IN (tenths - (tenths % (10 * Cent))) \div 10

\* Math.round(Math.max(0, 0.1 * balanceLeft) * 100) / 100: a tenth of the balance,
\* to the nearest cent, a half cent upwards
RoundedSavings(balanceLeft) ==
    LET tenths == Max(0, balanceLeft)      \* in tenths of the money unit
        r == tenths % (10 * Cent)
    IN IF 2 * r >= 10 * Cent THEN (tenths - r + 10 * Cent) \div 10
       ELSE (tenths - r) \div 10

\* a weekly entry that counts the days from today backwards
WeeklyEntry_NewestFirst(i, weeklyIncomes, weeklyExpenses) ==
    LET date == today - i
        dayIncome == SumAmount(incomes, {x \in weeklyIncomes : incomes[x].date = date})
        dayExpense == SumAmount(expenses, {x \in weeklyExpenses : expenses[x].date = date})
    IN [day |-> DayNames[GetDay(date) + 1], amount |-> Max(0, dayIncome - dayExpense)]

\* entry i of weeklyStats, i = 0..6, from the incomes and expenses of the last
\* seven days
WeeklyEntry(i, weeklyIncomes, weeklyExpenses) ==
    LET date == today - (6 - i)
        dayIncome == SumAmount(incomes, {x \in weeklyIncomes : incomes[x].date = date})
        dayExpense == SumAmount(expenses, {x \in weeklyExpenses : expenses[x].date = date})
    IN [day |-> DayNames[GetDay(date) + 1], amount |-> Max(0, dayIncome - dayExpense)]

WeeklyStats(userId) ==
    LET sevenDaysAgo == today - WeekLength
        weeklyIncomes == {x \in Matching(incomes, userId, Absent) :
                             incomes[x].date >= sevenDaysAgo}
        weeklyExpenses == {x \in Matching(expenses, userId, Absent) :
                              expenses[x].date >= sevenDaysAgo}
    IN [k \in 1..WeekLength |-> WeeklyEntry(k - 1, weeklyIncomes, weeklyExpenses)]

\* the reduce of expensesByCategory over the expenses in the order o
RECURSIVE ByCategory(_, _)
ByCategory(o, acc) ==
    IF o = <<>> THEN acc
    ELSE LET exp == expenses[Head(o)]
             at == {k \in 1..Len(acc) : acc[k].category = exp.dim}
         IN ByCategory(Tail(o),
                IF at # {}
                THEN [acc EXCEPT ![CHOOSE k \in at : TRUE].amount = @ + exp.amount]
                ELSE Append(acc, [category |-> exp.dim, amount |-> exp.amount]))

\* x put into a sequence sorted by the field key, largest first, behind its
\* equals
RECURSIVE InsertSorted(_, _, _)
InsertSorted(x, sorted, key) ==
    IF sorted = <<>> THEN <<x>>
    ELSE IF x[key] > Head(sorted)[key] THEN <<x>> \o sorted
    ELSE <<Head(sorted)>> \o InsertSorted(x, Tail(sorted), key)

\* Array.prototype.sort((a, b) => b.key - a.key): a stable sort, largest first
RECURSIVE StableSort(_, _)
StableSort(seq, key) ==
    IF seq = <<>> THEN <<>>
    ELSE InsertSorted(seq[Len(seq)], StableSort(SubSeq(seq, 1, Len(seq) - 1), key), key)

\* formattedCategoryStats from the caller's expenses in the order o
CategoryStats(o) ==
    LET thirtyDaysAgo == today - MonthLength
        expensesLast30 == SelectSeq(o, LAMBDA x : expenses[x].date >= thirtyDaysAgo)
        sorted == StableSort(ByCategory(expensesLast30, <<>>), "amount")
    IN [k \in 1..Min(TopCategories, Len(sorted)) |->
           [name |-> sorted[k].category, value |-> sorted[k].amount]]

\* toTx over the rows of a table in the order o
ToTx(table, o, type) ==
    [k \in 1..Len(o) |->
        [id |-> o[k], type |-> type, date |-> table[o[k]].date,
         amount |-> table[o[k]].amount]]

\* a merged list left in the order of the three tables
AllTransactions_Unsorted(oi, oe, ov) ==
    ToTx(incomes, oi, "income") \o ToTx(expenses, oe, "expense")
        \o ToTx(investments, ov, "investment")

\* the merged list, newest first
AllTransactions(oi, oe, ov) ==
    StableSort(ToTx(incomes, oi, "income") \o ToTx(expenses, oe, "expense")
                   \o ToTx(investments, ov, "investment"),
               "date")

\* the response of getDashboard when the three findMany return their rows in
\* the orders oi, oe and ov
DashboardBody(userId, oi, oe, ov) ==
    LET allTransactions == AllTransactions(oi, oe, ov)
        totalIncomeSum == SumAmount(incomes, Matching(incomes, userId, Absent))
        totalExpenseSum == SumAmount(expenses, Matching(expenses, userId, Absent))
        totalInvestmentSum ==
            SumAmount(investments, Matching(investments, userId, Absent))
        balanceLeft == totalIncomeSum - totalExpenseSum - totalInvestmentSum
    IN [op |-> "getDashboard", user |-> userId, status |-> 200, id |-> 0,
        ledger |-> LedgerView(account[userId]),
        transactions |->
            SubSeq(allTransactions, 1, Min(RecentCount, Len(allTransactions))),
        allTransactions |-> allTransactions,
        totalIncomeSum |-> totalIncomeSum,
        totalExpenseSum |-> totalExpenseSum,
        totalInvestmentSum |-> totalInvestmentSum,
        balanceLeft |-> balanceLeft,
        recommendedSavings |-> RoundedSavings(balanceLeft),
        weeklyStats |-> WeeklyStats(userId),
        categoryStats |-> CategoryStats(oe)]

getDashboard(userId) ==
    \E oi \in DateDesc(incomes, Matching(incomes, userId, Absent)),
       oe \in DateDesc(expenses, Matching(expenses, userId, Absent)),
       ov \in DateDesc(investments, Matching(investments, userId, Absent)) :
        resp' = DashboardBody(userId, oi, oe, ov)

----------------------------------------------------------------------------
(* The dashboard specification: the tables hold rows that creates can have *)
(* left, one dashboard request is in flight, and getDashboard answers it.  *)
(* The tables are drawn from three families: few rows around the days of   *)
(* the weekly window, expenses over more categories than the dashboard     *)
(* shows, and more rows than the recent list shows.                        *)

DashRows == 2           \* incomes and expenses of the first family

Cents(n) == n * Cent

DashDays == {10, 13}    \* the days the clock may show: a Sunday and a Wednesday

Row(u, a, d, t) == [userId |-> u, amount |-> a, dim |-> d, date |-> t]

\* incomes and expenses on and around the days of the weekly window of day t
WeekIncomeChoices(t) ==
    {NoRow, Row(2, Cents(5), "d", t), Row(1, Cents(5), "d", t), Row(1, Cents(12), "d", t),
     Row(1, Cents(12), "d", t - 1), Row(1, Cents(5), "d", t + 1)}

WeekExpenseChoices(t) ==
    {NoRow, Row(2, Cents(5), "d", t), Row(1, Cents(12), "d", t),
     Row(1, Cents(5), "d", t - 1), Row(1, Cents(5), "d", t - WeekLength)}

WeekFamily(t) ==
    {[incomes |-> i, expenses |-> e, investments |-> v] :
        i \in [1..DashRows -> WeekIncomeChoices(t)],
        e \in [1..DashRows -> WeekExpenseChoices(t)],
        v \in [1..1 -> {NoRow, Row(1, Cents(12), "d", t)}]}

CategoryNames == <<"c1", "c2", "c3", "c4", "c5", "c6", "c7">>

\* expense k of the second family: its own category or the first one, on a day
\* of its own; the last two rows may lie before the window or after today
CategoryRowChoices(k, t) ==
    {Row(1, a, c, d) :
        a \in IF k <= 4 THEN {Cents(1 + (k % 2))} ELSE {Cents(1), Cents(2)},
        c \in {CategoryNames[k], CategoryNames[1]},
        d \in IF k = TopCategories + 1 THEN {t - k, t - MonthLength - k}
              ELSE IF k = TopCategories + 2 THEN {t - k, t + 1}
              ELSE {t - k}}

\* the expense tables of rows 1..n of the second family
RECURSIVE CategoryTables(_, _)
CategoryTables(n, t) ==
    IF n = 0 THEN {<<>>}
    ELSE {Append(f, r) : f \in CategoryTables(n - 1, t), r \in CategoryRowChoices(n, t)}

CategoryFamily(t) ==
    {[incomes |-> [k \in 1..1 |-> NoRow], expenses |-> e,
      investments |-> [k \in 1..1 |-> NoRow]] :
        e \in CategoryTables(TopCategories + 2, t)}

ManyRows == 1..(RecentCount + 2)

\* the rows 1..n of the third family, dealt to the three tables in turn, row k
\* dated (k * step) % m days before t
ManyTable(kind, n, step, m, t) ==
    [k \in ManyRows |->
        IF k <= n /\ k % 3 = kind THEN Row(1, Cents(k), "d", t - ((k * step) % m))
        ELSE NoRow]

ManyFamily(t) ==
    {[incomes |-> ManyTable(0, n, step, m, t), expenses |-> ManyTable(1, n, step, m, t),
      investments |-> ManyTable(2, n, step, m, t)] :
        n \in (RecentCount - 1)..(RecentCount + 2), step \in {1, 5}, m \in {4, 13}}

\* the ledger that the creates of the rows of user u leave
LedgerOf(T, u) ==
    LET i == SumAmount(T.incomes, Matching(T.incomes, u, Absent))
        e == SumAmount(T.expenses, Matching(T.expenses, u, Absent))
        v == SumAmount(T.investments, Matching(T.investments, u, Absent))
    IN [totalBalance |-> i - e - v, totalIncome |-> i, totalExpense |-> e,
        totalSavings |-> 0, totalInvested |-> v]

InitDash ==
    /\ users = ReadUsers
    /\ today \in DashDays
    /\ accounts = <<>>
    /\ \E T \in WeekFamily(today) \cup CategoryFamily(today) \cup ManyFamily(today) :
          /\ incomes = T.incomes /\ expenses = T.expenses /\ investments = T.investments
          /\ account = [u \in UserIds |-> LedgerOf(T, u)]
    /\ transactions = [i \in RecIds |-> NoRow]
    /\ nextId = RecentCount + 2
    /\ resp = InitResp
    /\ snap = [u \in UserIds |-> None]
    /\ cards = [i \in RecIds |-> NoRow]
    /\ \E u \in UserIds :
          creq = [p \in Procs |-> IF p = 1 THEN [op |-> "getDashboard", user |-> u]
                                  ELSE None]
    /\ budgets = [i \in RecIds |-> NoRow]
    /\ goals = [i \in RecIds |-> NoRow]
    /\ now = 0
    /\ client = [u \in UserIds |-> None]

GetDashboard ==
    \E p \in Procs : Serve(p, "getDashboard") /\ getDashboard(creq[p].user)

NextDash == GetDashboard

SpecDash == InitDash /\ [][NextDash]_vars

----------------------------------------------------------------------------
(* Dashboard properties *)

\* the rows of user u in a table
RowsOf(table, u) == {x \in DOMAIN table : table[x] # NoRow /\ table[x].userId = u}

\* the sum of the amounts of the rows ids, row by row in the order of the ids
RECURSIVE Total(_, _)
Total(table, ids) ==
    IF ids = {} THEN 0
    ELSE LET x == CHOOSE y \in ids : \A z \in ids : y >= z
         IN Total(table, ids \ {x}) + table[x].amount

Dashed == resp.op = "getDashboard" /\ resp.status = 200

C14_Weekly ==
    Dashed =>
        LET w == resp.weeklyStats
            DayDiff(d) ==
                Total(incomes, {x \in RowsOf(incomes, resp.user) : incomes[x].date = d})
                - Total(expenses, {x \in RowsOf(expenses, resp.user) : expenses[x].date = d})
        IN /\ DOMAIN w = 1..7
           /\ w[7].day = DayNames[GetDay(today) + 1]
           /\ \A k \in 1..6 :
                 \E n \in 1..7 : /\ DayNames[n] = w[k].day
                                 /\ DayNames[(n % 7) + 1] = w[k + 1].day
           /\ \A k \in 1..7 :
                 /\ w[k].amount >= 0
                 /\ w[k].amount = IF DayDiff(today - (7 - k)) > 0
                                  THEN DayDiff(today - (7 - k)) ELSE 0

\* a week has been answered with an income yesterday, expenses above the incomes
\* today, and an expense before the week
C14_Witness ==
    /\ Dashed
    /\ resp.weeklyStats[6].amount = Cents(12)
    /\ resp.weeklyStats[7].amount = 0
    /\ \E x \in RowsOf(expenses, resp.user) : expenses[x].date = today
    /\ \E x \in RowsOf(incomes, resp.user) : incomes[x].date = today
    /\ \E x \in RowsOf(expenses, resp.user) : expenses[x].date = today - 7

\* C15: categoryStats holds, for the caller's expenses dated within the last 30
\* days, at most 5 {name, value} pairs, at most one per category, each value the
\* sum of that category's amounts in the window, ordered by value
\* non-increasing, and no category left out has a sum greater than one listed.
C15_Categories ==
    Dashed =>
        LET c == resp.categoryStats
            window == {x \in RowsOf(expenses, resp.user) :
                          expenses[x].date >= today - MonthLength
                          /\ expenses[x].date <= today}
            Sum(name) == Total(expenses, {x \in window : expenses[x].dim = name})
            listed == {c[k].name : k \in 1..Len(c)}
            present == {expenses[x].dim : x \in window}
        IN /\ Len(c) <= 5
           /\ \A j, k \in 1..Len(c) : c[j].name = c[k].name => j = k
           /\ listed \subseteq present
           /\ \A k \in 1..Len(c) : c[k].value = Sum(c[k].name)
           /\ \A k \in 1..(Len(c) - 1) : c[k].value >= c[k + 1].value
           /\ \A out \in present \ listed, k \in 1..Len(c) : Sum(out) <= c[k].value
           /\ (present \ listed # {} => Len(c) = 5)

\* C16: allTransactions has exactly one entry for each income, expense and
\* investment row of the caller and nothing else, each tagged with its origin,
\* ordered by date non-increasing; transactions is its first 10 entries (all of
\* them when there are fewer).
C16_AllTransactions ==
    Dashed =>
        LET a == resp.allTransactions
            t == resp.transactions
            Table(type) == CASE type = "income" -> incomes
                             [] type = "expense" -> expenses
                             [] type = "investment" -> investments
            entries == {<<a[k].type, a[k].id>> : k \in 1..Len(a)}
            rows == {<<type, x>> : type \in {"income", "expense", "investment"},
                                   x \in 1..(RecentCount + 2)}
            owned == {r \in rows : r[2] \in RowsOf(Table(r[1]), resp.user)}
        IN /\ entries = owned
           /\ Cardinality(owned) = Len(a)
           /\ \A k \in 1..Len(a) :
                 /\ a[k].date = Table(a[k].type)[a[k].id].date
                 /\ a[k].amount = Table(a[k].type)[a[k].id].amount
           /\ \A k \in 1..(Len(a) - 1) : a[k].date >= a[k + 1].date
           /\ Len(t) = IF Len(a) < 10 THEN Len(a) ELSE 10
           /\ \A k \in 1..Len(t) : t[k] = a[k]

\* a dashboard over more than ten rows of the three tables has been answered
C16_Witness ==
    /\ Dashed
    /\ Len(resp.allTransactions) = 12 /\ Len(resp.transactions) = 10
    /\ \E k \in 1..11 : /\ resp.allTransactions[k].date = resp.allTransactions[k + 1].date
                        /\ resp.allTransactions[k].type # resp.allTransactions[k + 1].type

----------------------------------------------------------------------------
(* The scenario specification: registration, creates of whole amounts and  *)
(* the dashboard, one request at a time.                                   *)

ScenarioRecords == 3    \* record ids handed out in one run

ScenarioIds == 1..ScenarioRecords

ScenarioBodies ==
    {[title |-> Str("t"), dim |-> Str("d"), amount |-> Num(Whole(a)), date |-> Absent] :
        a \in {500, 120, 200}}

InitScenario ==
    /\ users = [u \in UserIds |-> NoRow]
    /\ account = [u \in UserIds |-> NoRow]
    /\ incomes = [i \in ScenarioIds |-> NoRow]
    /\ expenses = [i \in ScenarioIds |-> NoRow]
    /\ investments = [i \in ScenarioIds |-> NoRow]
    /\ transactions = [i \in ScenarioIds |-> NoRow]
    /\ nextId = 0
    /\ resp = InitResp
    /\ snap = [u \in UserIds |-> None]
    /\ cards = [i \in RecIds |-> NoRow]
    /\ creq = [p \in Procs |-> None]
    /\ budgets = [i \in RecIds |-> NoRow]
    /\ goals = [i \in RecIds |-> NoRow]
    /\ now = 0
    /\ client = [u \in UserIds |-> None]
    /\ today = 0
    /\ accounts = <<>>

ScenarioCreateIncome ==
    \E u \in Registered, body \in ScenarioBodies :
        createIncome(u, body) /\ UNCHANGED <<users, client, expenses, investments, LedgerFrame>>

ScenarioCreateExpense ==
    \E u \in Registered, body \in ScenarioBodies :
        createExpense(u, body) /\ UNCHANGED <<users, client, incomes, investments, LedgerFrame>>

ScenarioCreateInvestment ==
    \E u \in Registered, body \in ScenarioBodies :
        createInvestment(u, body) /\ UNCHANGED <<users, client, incomes, expenses, LedgerFrame>>

ScenarioGetDashboard ==
    \E u \in Registered :
        getDashboard(u) /\ UNCHANGED <<creq, ReadFrame>>

NextScenario ==
    \/ Register
    \/ ScenarioCreateIncome \/ ScenarioCreateExpense \/ ScenarioCreateInvestment
    \/ ScenarioGetDashboard

SpecScenario == InitScenario /\ [][NextScenario]_vars

\* user u registered with 201 and since then created exactly one income of 500,
\* one expense of 120 and one investment of 200
ScenarioDone(u) ==
    /\ client[u] # None
    /\ nextId = 3
    /\ \E i, e, v \in ScenarioIds :
          /\ incomes = [x \in ScenarioIds |->
                IF x = i THEN [userId |-> u, amount |-> Whole(500), dim |-> "d", date |-> 0]
                ELSE NoRow]
          /\ expenses = [x \in ScenarioIds |->
                IF x = e THEN [userId |-> u, amount |-> Whole(120), dim |-> "d", date |-> 0]
                ELSE NoRow]
          /\ investments = [x \in ScenarioIds |->
                IF x = v THEN [userId |-> u, amount |-> Whole(200), dim |-> "d", date |-> 0]
                ELSE NoRow]

\* C12: for a freshly registered user who created an income of 500, an expense
\* of 120 and an investment of 200 and nothing else, the dashboard reports
\* totalBalance 180, totalIncomeSum 500, totalExpenseSum 120, totalInvestmentSum
\* 200, balanceLeft 180 and recommendedSavings 18.00.
C12_Scenario ==
    (resp.op = "getDashboard" /\ ScenarioDone(resp.user)) =>
        /\ resp.ledger.totalBalance = Whole(180)
        /\ resp.totalIncomeSum = Whole(500)
        /\ resp.totalExpenseSum = Whole(120)
        /\ resp.totalInvestmentSum = Whole(200)
        /\ resp.balanceLeft = Whole(180)
        /\ resp.recommendedSavings = Whole(18)

\* the dashboard of that user has been answered
C12_Witness ==
    resp.op = "getDashboard" /\ ScenarioDone(resp.user)

----------------------------------------------------------------------------
(* The ledger rows specification: register, createIncome and               *)
(* createInvestment step by step from two request processes, every awaited *)
(* store call one step, over the accounts table as a sequence of rows.     *)

\* the rows of accounts that belong to userId
rowsOf(userId) == {k \in 1..Len(accounts) : accounts[k].userId = userId}

\* prisma.account.findUnique({where: {userId}})
accountFindUnique(userId) ==
    IF rowsOf(userId) = {} THEN NoRow ELSE accounts[CHOOSE k \in rowsOf(userId) : TRUE]

\* an account.create on a table without the unique index on userId
accountCreate_NoIndex(userId) ==
    [ok |-> TRUE,
     table |-> Append(accounts, [userId |-> userId, ledger |-> ZeroAccount])]

\* prisma.account.create({data: {userId}}): whether the unique index
\* accounts_userId_key lets the row in, and the table after it; the totals
\* default to 0
accountCreate(userId) ==
    IF rowsOf(userId) # {} THEN [ok |-> FALSE, table |-> accounts]
    ELSE [ok |-> TRUE,
          table |-> Append(accounts, [userId |-> userId, ledger |-> ZeroAccount])]

\* the increments of the account.update of handler op
CreateDelta(op, row, a) ==
    IF op = "createIncome" THEN IncomeCreateDelta(row, a)
    ELSE InvestmentCreateDelta(row, a)

\* prisma.account.update({where: {userId}, data: increments}): the table after it
accountUpdate(op, userId, a) ==
    [k \in 1..Len(accounts) |->
        IF accounts[k].userId = userId
        THEN [accounts[k] EXCEPT !.ledger = CreateDelta(op, @, a)]
        ELSE accounts[k]]

\* the answer of a request of this specification: ledger is the caller's row
\* as the answering step left it, backfilled tells a create that found no row
RowAnswer(p, status, userId, id, table, backfilled) ==
    resp' = [op |-> creq[p].op, user |-> userId, status |-> status, id |-> id,
             ledger |-> LET ks == {k \in 1..Len(table) : table[k].userId = userId}
                        IN IF ks = {} THEN NoRow
                           ELSE table[CHOOSE k \in ks : TRUE].ledger,
             backfilled |-> backfilled]

\* register after the lookup: prisma.user.create, refused by users_email_key
\* when the email has been taken meanwhile
registerUserCreate(p) ==
    /\ ~Idle(p) /\ creq[p].op = "register" /\ creq[p].pc = "create"
    /\ IF FindUserByEmail(creq[p].email) # {}
       THEN /\ RowAnswer(p, 500, 0, 0, accounts, FALSE)
            /\ creq' = [creq EXCEPT ![p] = None]
            /\ UNCHANGED users
       ELSE \E id \in UserIds :
            /\ users[id] = NoRow
            /\ \A j \in UserIds : j < id => users[j] # NoRow
            /\ users' = [users EXCEPT ![id] =
                            [email |-> creq[p].email,
                             password |-> hashPassword(creq[p].password.s),
                             name |-> [t |-> "localPart", of |-> creq[p].email.s]]]
            /\ creq' = [creq EXCEPT ![p] =
                           [op |-> "register", pc |-> "accountCreate", userId |-> id]]
            /\ UNCHANGED resp
    /\ UNCHANGED accounts

\* register's prisma.account.create, which may fail, and the 201
registerAccountCreate(p, fails) ==
    /\ ~Idle(p) /\ creq[p].op = "register" /\ creq[p].pc = "accountCreate"
    /\ LET userId == creq[p].userId
           created == accountCreate(userId) IN
       IF fails \/ ~created.ok
       THEN /\ RowAnswer(p, 500, userId, userId, accounts, FALSE)
            /\ UNCHANGED accounts
       ELSE /\ accounts' = created.table
            /\ RowAnswer(p, 201, userId, userId, created.table, FALSE)
    /\ creq' = [creq EXCEPT ![p] = None]

\* createIncome or createInvestment of a body that passes the checks, up to
\* its first store call
createStart(p, op, userId, amount) ==
    /\ Idle(p)
    /\ creq' = [creq EXCEPT ![p] =
                   [op |-> op, userId |-> userId, amount |-> amount,
                    pc |-> "recordCreate", id |-> 0, backfilled |-> FALSE]]

\* prisma.income.create or prisma.investment.create
recordCreate(p) ==
    /\ ~Idle(p) /\ creq[p].op # "register" /\ creq[p].pc = "recordCreate"
    /\ nextId + 1 \in DOMAIN incomes
    /\ nextId' = nextId + 1
    /\ LET row == [userId |-> creq[p].userId, amount |-> Dec(creq[p].amount),
                   dim |-> "d", date |-> today] IN
       IF creq[p].op = "createIncome"
       THEN incomes' = [incomes EXCEPT ![nextId + 1] = row] /\ UNCHANGED investments
       ELSE investments' = [investments EXCEPT ![nextId + 1] = row] /\ UNCHANGED incomes
    /\ creq' = [creq EXCEPT ![p].pc = "findUnique", ![p].id = nextId + 1]

\* let account = await prisma.account.findUnique({where: {userId}})
createFindUnique(p) ==
    /\ ~Idle(p) /\ creq[p].op # "register" /\ creq[p].pc = "findUnique"
    /\ creq' = [creq EXCEPT ![p].pc =
                   IF accountFindUnique(creq[p].userId) = NoRow
                   THEN "accountCreate" ELSE "accountUpdate"]

\* if (!account) account = await prisma.account.create({data: {userId}})
createAccountCreate(p) ==
    /\ ~Idle(p) /\ creq[p].op # "register" /\ creq[p].pc = "accountCreate"
    /\ LET created == accountCreate(creq[p].userId) IN
       IF ~created.ok
       THEN /\ RowAnswer(p, 500, creq[p].userId, creq[p].id, accounts, TRUE)
            /\ creq' = [creq EXCEPT ![p] = None]
            /\ UNCHANGED accounts
       ELSE /\ accounts' = created.table
            /\ creq' = [creq EXCEPT ![p].pc = "accountUpdate", ![p].backfilled = TRUE]
            /\ UNCHANGED resp

\* await prisma.account.update(...), which throws when no row matches, and
\* the 201
createAccountUpdate(p) ==
    /\ ~Idle(p) /\ creq[p].op # "register" /\ creq[p].pc = "accountUpdate"
    /\ LET userId == creq[p].userId
           updated == accountUpdate(creq[p].op, userId, creq[p].amount) IN
       IF rowsOf(userId) = {}
       THEN /\ RowAnswer(p, 500, userId, creq[p].id, accounts, creq[p].backfilled)
            /\ UNCHANGED accounts
       ELSE /\ accounts' = updated
            /\ RowAnswer(p, 201, userId, creq[p].id, updated, creq[p].backfilled)
    /\ creq' = [creq EXCEPT ![p] = None]

RowEmails == {"a@x", "b@x"}
RowAmounts == {Whole(1)}

\* what the steps of this specification leave alone
RowFrame == <<account, expenses, snap, cards, budgets, goals, now, client,
              transactions, today>>

InitRows ==
    /\ users = [u \in UserIds |-> NoRow]
    /\ account = [u \in UserIds |-> NoRow]
    /\ incomes = [i \in RecIds |-> NoRow]
    /\ expenses = [i \in RecIds |-> NoRow]
    /\ investments = [i \in RecIds |-> NoRow]
    /\ nextId = 0
    /\ resp = InitResp
    /\ snap = [u \in UserIds |-> None]
    /\ cards = [i \in RecIds |-> NoRow]
    /\ creq = [p \in Procs |-> None]
    /\ budgets = [i \in RecIds |-> NoRow]
    /\ goals = [i \in RecIds |-> NoRow]
    /\ now = 0
    /\ client = [u \in UserIds |-> None]
    /\ transactions = [i \in RecIds |-> NoRow]
    /\ today = 0
    /\ accounts = <<>>

RowRegisterStart ==
    \E p \in Procs, email \in RowEmails :
        /\ registerStart(p, Str(email), Str(LedgerPassword))
        /\ UNCHANGED <<users, accounts, incomes, investments, nextId, resp, RowFrame>>

RowRegisterFindUnique ==
    \E p \in Procs :
        /\ creq[p] # None /\ creq[p].op = "register"
        /\ registerFindUnique(p)
        /\ UNCHANGED <<users, accounts, incomes, investments, nextId, RowFrame>>

RowRegisterUserCreate ==
    \E p \in Procs :
        /\ registerUserCreate(p)
        /\ UNCHANGED <<incomes, investments, nextId, RowFrame>>

RowRegisterAccountCreate ==
    \E p \in Procs, fails \in BOOLEAN :
        /\ registerAccountCreate(p, fails)
        /\ UNCHANGED <<users, incomes, investments, nextId, RowFrame>>

\* a user can log in, and so send requests, from the moment the users row exists
RowCreateIncomeStart ==
    \E p \in Procs, u \in Registered, amount \in RowAmounts :
        /\ createStart(p, "createIncome", u, amount)
        /\ UNCHANGED <<users, accounts, incomes, investments, nextId, resp, RowFrame>>

RowCreateInvestmentStart ==
    \E p \in Procs, u \in Registered, amount \in RowAmounts :
        /\ createStart(p, "createInvestment", u, amount)
        /\ UNCHANGED <<users, accounts, incomes, investments, nextId, resp, RowFrame>>

RowRecordCreate ==
    \E p \in Procs :
        /\ recordCreate(p)
        /\ UNCHANGED <<users, accounts, resp, RowFrame>>

RowCreateFindUnique ==
    \E p \in Procs :
        /\ createFindUnique(p)
        /\ UNCHANGED <<users, accounts, incomes, investments, nextId, resp, RowFrame>>

RowCreateAccountCreate ==
    \E p \in Procs :
        /\ createAccountCreate(p)
        /\ UNCHANGED <<users, incomes, investments, nextId, RowFrame>>

RowCreateAccountUpdate ==
    \E p \in Procs :
        /\ createAccountUpdate(p)
        /\ UNCHANGED <<users, incomes, investments, nextId, RowFrame>>

NextRows ==
    \/ RowRegisterStart
    \/ RowRegisterFindUnique
    \/ RowRegisterUserCreate
    \/ RowRegisterAccountCreate
    \/ RowCreateIncomeStart
    \/ RowCreateInvestmentStart
    \/ RowRecordCreate
    \/ RowCreateFindUnique
    \/ RowCreateAccountCreate
    \/ RowCreateAccountUpdate

SpecRows == InitRows /\ [][NextRows]_vars

\* C17: no interleaving gives a user more than one ledger row; after every
\* register, createIncome or createInvestment answered 201 the caller has
\* exactly one ledger row; a registration answered 201 leaves the five totals
\* of that row at 0; and a create that found no ledger row is answered 201
\* with the row created and its delta applied to it.
C17_OneLedgerRow ==
    /\ \A u \in UserIds : Cardinality(rowsOf(u)) <= 1
    /\ (resp.op \in {"register", "createIncome", "createInvestment"}
        /\ resp.status = 201)
       => /\ Cardinality(rowsOf(resp.user)) = 1
          /\ resp.op = "register" => resp.ledger = ZeroAccount
          /\ (resp.op = "createIncome" /\ resp.backfilled)
             => /\ resp.ledger # NoRow
                /\ resp.ledger.totalIncome >= Whole(1)
          /\ (resp.op = "createInvestment" /\ resp.backfilled)
             => /\ resp.ledger # NoRow
                /\ resp.ledger.totalInvested >= Whole(1)

\* a create of a user whose registration failed after the users row was
\* written found no ledger row, created it and was answered 201, while another
\* request was in flight
C17_Witness ==
    /\ resp.op \in {"createIncome", "createInvestment"}
    /\ resp.status = 201
    /\ resp.backfilled
    /\ Cardinality(rowsOf(resp.user)) = 1
    /\ \E p \in Procs : creq[p] # None

----------------------------------------------------------------------------
(* Stored values *)

\* C18: in every state reached by createSavingsGoal, updateSavingsGoal,
\* contribute and withdraw requests, every stored savings goal has
\* targetAmount > 0, currentAmount >= 0 and status active or completed.
C18_GoalBounds ==
    \A id \in DOMAIN goals :
        goals[id] # NoRow
        => /\ goals[id].targetAmount > 0
           /\ goals[id].currentAmount >= 0
           /\ goals[id].status \in {"active", "completed"}

\* C19: every stored budget has limit > 0 (a create through POST /api/budgets
\* with a limit <= 0 stores nothing, and no update stores a limit <= 0).
C19_BudgetLimit ==
    \A id \in DOMAIN budgets : budgets[id] # NoRow => budgets[id].limit > 0

\* C20: every stored income, expense and investment has amount > 0 after any
\* sequence of creates and updates (creates with a required field missing or
\* with amount <= 0 are answered 400 and insert nothing).
C20_AmountPositive ==
    \A id \in RecIds :
        /\ incomes[id] # NoRow => incomes[id].amount > 0
        /\ expenses[id] # NoRow => expenses[id].amount > 0
        /\ investments[id] # NoRow => investments[id].amount > 0

----------------------------------------------------------------------------
(* Updates *)

\* the row a patch must leave: each field the patch's value (a numeric string
\* parsed) when the patch has the key, its previous value otherwise
Patched(row, body) ==
    [row EXCEPT
        !.dim = IF body.dim = Absent THEN @ ELSE body.dim.s,
        !.amount = IF body.amount = Absent \/ ParseFloat(body.amount) = NotANumber
                   THEN @ ELSE ParseFloat(body.amount).n,
        !.date = IF body.date = Absent \/ NewDate(body.date) = InvalidDate
                 THEN @ ELSE NewDate(body.date).d]

\* C21: an update answered 200 leaves the row with each field at the patch's
\* value when the patch has the field's key and at its previous value
\* otherwise, and changes no other row; an update of a row the caller does not
\* own is answered 404 and changes nothing.
C21_PartialPatch ==
    [][\A u \in UserIds, id \in RecIds, body \in LedgerBodies :
          /\ updateIncome(u, id, body) =>
                IF resp'.status = 200
                THEN incomes' = [incomes EXCEPT ![id] = Patched(@, body)]
                ELSE resp'.status = 404 => UNCHANGED <<incomes, account>>
          /\ updateInvestment(u, id, body) =>
                IF resp'.status = 200
                THEN investments' = [investments EXCEPT ![id] = Patched(@, body)]
                ELSE resp'.status = 404 => UNCHANGED <<investments, account>>]_vars

----------------------------------------------------------------------------
(* createCard: the two input shapings.  Strings that the handler takes     *)
(* apart are sequences of characters.                                      *)

Century == 2000           \* y += 2000
TwoDigitLimit == 100      \* if (y < 100)

DigitChars == <<"0", "1", "2", "3", "4", "5", "6", "7", "8", "9">>
IsDigit(c) == \E k \in 1..10 : DigitChars[k] = c
DigitValue(c) == (CHOOSE k \in 1..10 : DigitChars[k] = c) - 1

\* expiryDate.split('/')
RECURSIVE SplitSlash(_)
SplitSlash(str) ==
    IF \A i \in 1..Len(str) : str[i] # "/"
    THEN <<str>>
    ELSE LET i == CHOOSE k \in 1..Len(str) :
                      str[k] = "/" /\ \A j \in 1..(k - 1) : str[j] # "/"
         IN <<SubSeq(str, 1, i - 1)>> \o SplitSlash(SubSeq(str, i + 1, Len(str)))

\* p.trim()
RECURSIVE Trim(_)
Trim(str) ==
    IF str = <<>> THEN str
    ELSE IF Head(str) = " " THEN Trim(Tail(str))
    ELSE IF str[Len(str)] = " " THEN Trim(SubSeq(str, 1, Len(str) - 1))
    ELSE str

\* the value of the digits of str read from the left, after acc
RECURSIVE LeadingDigits(_, _)
LeadingDigits(str, acc) ==
    IF str = <<>> \/ ~IsDigit(Head(str)) THEN acc
    ELSE LeadingDigits(Tail(str), 10 * acc + DigitValue(Head(str)))

\* parseInt(str, 10) of a string without a sign: the leading digits, NaN when
\* the string does not start with a digit
ParseInt10(str) ==
    IF str = <<>> \/ ~IsDigit(Head(str)) THEN NotANumber
    ELSE Num(LeadingDigits(str, 0))

\* (type || cardType || '').toString()
FinalType(body) ==
    IF ~Falsy(body.type) THEN body.type
    ELSE IF ~Falsy(body.cardType) THEN body.cardType
    ELSE Absent

\* a parse of expiryDate that keeps the year as written
FinalExpiry_YearAsWritten(body) ==
    LET given == [month |-> body.expiryMonth, year |-> body.expiryYear] IN
    IF Falsy(body.expiryDate) \/ body.expiryDate.t # "str" THEN given
    ELSE LET parts == SplitSlash(body.expiryDate.s) IN
         IF Len(parts) # 2 THEN given
         ELSE LET m == ParseInt10(Trim(parts[1]))
                  y == ParseInt10(Trim(parts[2]))
              IN [month |-> IF m = NotANumber THEN given.month ELSE m,
                  year |-> IF y = NotANumber THEN given.year ELSE y]

\* finalExpiryMonth and finalExpiryYear: expiryMonth and expiryYear of the
\* body, replaced by what a string expiryDate "m/y" parses to
FinalExpiry(body) ==
    LET given == [month |-> body.expiryMonth, year |-> body.expiryYear] IN
    IF Falsy(body.expiryDate) \/ body.expiryDate.t # "str" THEN given
    ELSE LET parts == SplitSlash(body.expiryDate.s) IN
         IF Len(parts) # 2 THEN given
         ELSE LET m == ParseInt10(Trim(parts[1]))
                  y0 == ParseInt10(Trim(parts[2]))
                  y == IF y0 # NotANumber /\ y0.n < TwoDigitLimit
                       THEN Num(y0.n + Century) ELSE y0
              IN [month |-> IF m = NotANumber THEN given.month ELSE m,
                  year |-> IF y = NotANumber THEN given.year ELSE y]

\* the data of prisma.card.create for a body without isDefault and limit
cardData(userId, body) ==
    [userId |-> userId,
     type |-> FinalType(body).s,
     name |-> body.cardholderName.s,
     last4 |-> body.last4.s,
     expiryMonth |-> IF Falsy(FinalExpiry(body).month) THEN Null
                     ELSE FinalExpiry(body).month,
     expiryYear |-> IF Falsy(FinalExpiry(body).year) THEN Null
                    ELSE FinalExpiry(body).year,
     isDefault |-> FALSE]

\* createCard of request process p, whose body has neither isDefault nor limit:
\* the handler's only store call is card.create.  The answered request stays in
\* creq with its status and the id of its row.
createCardShaped(p) ==
    LET body == creq[p].body
        userId == creq[p].userId
    IN
    /\ creq[p] # None /\ creq[p].pc = "create"
    /\ IF Falsy(FinalType(body)) \/ Falsy(body.last4) \/ Falsy(body.cardholderName)
       THEN /\ resp' = [op |-> "createCard", user |-> userId, status |-> 400, id |-> 0]
            /\ creq' = [creq EXCEPT ![p].pc = "done", ![p].status = 400]
            /\ UNCHANGED <<cards, nextId>>
       ELSE /\ nextId + 1 \in DOMAIN cards
            /\ nextId' = nextId + 1
            /\ cards' = [cards EXCEPT ![nextId + 1] = cardData(userId, body)]
            /\ resp' = [op |-> "createCard", user |-> userId, status |-> 201,
                        id |-> nextId + 1]
            /\ creq' = [creq EXCEPT ![p].pc = "done", ![p].status = 201,
                                    ![p].id = nextId + 1]

----------------------------------------------------------------------------
(* The card shaping specification: two createCard requests of one user,    *)
(* drawn from the bodies of both shapings, each answered once.             *)

Chars(a, b, c, d) == <<a, b, c, d>>

MonthStrings == {<<"0", "1">>, <<"0", "8">>, <<"1", "2">>}
YearStrings ==
    {<<"0", "0">>, <<"2", "5">>, <<"9", "9">>,
     Chars("1", "9", "9", "9"), Chars("2", "0", "2", "5"), Chars("0", "0", "2", "5")}

\* expiryDate strings MM/YY and MM/YYYY, and strings of other forms
ExpiryDateInputs ==
    {Str(m \o <<"/">> \o y) : m \in MonthStrings, y \in YearStrings}
    \cup {Str(Chars("1", "2", "2", "5")), Str(Chars("a", "/", "2", "5")),
          Str(Chars("1", "2", "/", "x")), Str(<<"1", "2", " ", "/", " ", "2", "5">>),
          Str(<<"1", "/", "2", "/", "5">>)}

ShapeBody(type, cardType, expiryMonth, expiryYear, expiryDate) ==
    [type |-> type, cardType |-> cardType, last4 |-> Str("1234"),
     cardholderName |-> Str("n"), expiryMonth |-> expiryMonth,
     expiryYear |-> expiryYear, expiryDate |-> expiryDate]

\* the canonical shaping: type, expiryMonth and expiryYear
CanonicalBodies ==
    {ShapeBody(Str("credit"), Absent, Num(m), Num(y), Absent) :
        m \in {1, 8, 12}, y \in {25, 1999, 2000, 2025, 2099}}
    \cup {ShapeBody(Str("credit"), Absent, Absent, Absent, Absent),
          ShapeBody(Absent, Absent, Num(12), Num(2025), Absent)}

\* the alternate shaping: cardType and expiryDate, with or without type
AlternateBodies ==
    {ShapeBody(Absent, Str("credit"), Absent, Absent, d) : d \in ExpiryDateInputs}
    \cup {ShapeBody(Str("credit"), Str("debit"), Absent, Absent,
                    Str(<<"1", "2", "/", "2", "5">>)),
          ShapeBody(Absent, Str("credit"), Num(1), Num(1999),
                    Str(<<"1", "2", "/", "2", "5">>)),
          ShapeBody(Absent, Str("credit"), Num(1), Num(1999), Str(Chars("a", "/", "2", "5")))}

InitShape ==
    /\ users = ReadUsers
    /\ account = [u \in UserIds |-> ZeroAccount]
    /\ incomes = [i \in RecIds |-> NoRow]
    /\ expenses = [i \in RecIds |-> NoRow]
    /\ investments = [i \in RecIds |-> NoRow]
    /\ nextId = 0
    /\ resp = InitResp
    /\ snap = [u \in UserIds |-> None]
    /\ cards = [i \in Procs |-> NoRow]
    /\ \E a \in AlternateBodies, c \in CanonicalBodies :
          creq = <<[userId |-> 1, body |-> a, pc |-> "create", status |-> 0, id |-> 0],
                   [userId |-> 1, body |-> c, pc |-> "create", status |-> 0, id |-> 0]>>
    /\ budgets = [i \in RecIds |-> NoRow]
    /\ goals = [i \in RecIds |-> NoRow]
    /\ now = 0
    /\ client = [u \in UserIds |-> None]
    /\ transactions = [i \in RecIds |-> NoRow]
    /\ today = 0
    /\ accounts = <<>>

ShapeCreateCard ==
    \E p \in Procs :
        /\ createCardShaped(p)
        /\ UNCHANGED <<users, account, incomes, expenses, investments, snap, budgets,
                       goals, now, client, transactions, today, accounts>>

NextShape == ShapeCreateCard

SpecShape == InitShape /\ [][NextShape]_vars

----------------------------------------------------------------------------
(* Card shaping properties *)

\* a string MM/YY or MM/YYYY
WellFormedExpiry(v) ==
    /\ v # Absent /\ v.t = "str"
    /\ Len(v.s) \in {5, 7}
    /\ v.s[3] = "/"
    /\ \A k \in (1..Len(v.s)) \ {3} : IsDigit(v.s[k])

MonthOf(v) == 10 * DigitValue(v.s[1]) + DigitValue(v.s[2])

\* the year the digits after the slash write
WrittenYear(v) ==
    IF Len(v.s) = 5 THEN 10 * DigitValue(v.s[4]) + DigitValue(v.s[5])
    ELSE 1000 * DigitValue(v.s[4]) + 100 * DigitValue(v.s[5])
         + 10 * DigitValue(v.s[6]) + DigitValue(v.s[7])

\* the year of the logical card as the claim reads the string: 2000 + YY for
\* two digits, YYYY for four
YearAsStated(v) ==
    IF Len(v.s) = 5 THEN Century + WrittenYear(v) ELSE WrittenYear(v)

\* the year of the logical card when every year below 100 is taken as 20YY
YearAmended(v) ==
    IF WrittenYear(v) < TwoDigitLimit THEN Century + WrittenYear(v) ELSE WrittenYear(v)

\* the canonical request for the logical card of an alternate body
CanonicalOf(body, year) ==
    ShapeBody(IF body.type # Absent THEN body.type ELSE body.cardType, Absent,
              Num(MonthOf(body.expiryDate)), Num(year), Absent)

Created(p) == creq[p] # None /\ creq[p].pc = "done" /\ creq[p].status = 201

----------------------------------------------------------------------------
(* Transactions next to the typed records *)

TransactionType == {"income", "expense", "investment"}

\* a createTransaction that books an income transaction into the ledger
createTransaction_Synced(userId, body) ==
    IF Falsy(body.title) \/ Falsy(body.dim) \/ Falsy(body.amount) \/ Falsy(body.type)
    THEN /\ Answer("createTransaction", userId, 400, 0)
         /\ UNCHANGED <<transactions, nextId, account>>
    ELSE IF \/ ParseFloat(body.amount) = NotANumber
            \/ body.type.s \notin TransactionType
            \/ (~Falsy(body.date) /\ NewDate(body.date) = InvalidDate)
    THEN /\ Answer("createTransaction", userId, 500, 0)
         /\ UNCHANGED <<transactions, nextId, account>>
    ELSE /\ nextId + 1 \in DOMAIN transactions
         /\ nextId' = nextId + 1
         /\ transactions' = [transactions EXCEPT ![nextId + 1] =
                [userId |-> userId, amount |-> Dec(ParseFloat(body.amount).n),
                 dim |-> body.dim.s, type |-> body.type.s,
                 date |-> IF Falsy(body.date) THEN today ELSE NewDate(body.date).d]]
         /\ account' = [account EXCEPT ![userId] =
                IncomeCreateDelta(LedgerView(@), ParseFloat(body.amount).n)]
         /\ Answer("createTransaction", userId, 201, nextId + 1)

\* createTransaction: the required fields, then prisma.transaction.create, which
\* refuses an amount that is no number, a type outside the enum and an invalid
\* date
createTransaction(userId, body) ==
    IF Falsy(body.title) \/ Falsy(body.dim) \/ Falsy(body.amount) \/ Falsy(body.type)
    THEN /\ Answer("createTransaction", userId, 400, 0)
         /\ UNCHANGED <<transactions, nextId, account>>
    ELSE IF \/ ParseFloat(body.amount) = NotANumber
            \/ body.type.s \notin TransactionType
            \/ (~Falsy(body.date) /\ NewDate(body.date) = InvalidDate)
    THEN /\ Answer("createTransaction", userId, 500, 0)
         /\ UNCHANGED <<transactions, nextId, account>>
    ELSE /\ nextId + 1 \in DOMAIN transactions
         /\ nextId' = nextId + 1
         /\ transactions' = [transactions EXCEPT ![nextId + 1] =
                [userId |-> userId, amount |-> Dec(ParseFloat(body.amount).n),
                 dim |-> body.dim.s, type |-> body.type.s,
                 date |-> IF Falsy(body.date) THEN today ELSE NewDate(body.date).d]]
         /\ Answer("createTransaction", userId, 201, nextId + 1)
         /\ UNCHANGED account

----------------------------------------------------------------------------
(* The transactions specification: one user, the typed records' creates,   *)
(* updates and deletes, and createTransaction.  What the two reads can     *)
(* answer in a state is DashboardAnswers and TransactionFeed.              *)

TxBodies ==
    {[title |-> Str("t"), dim |-> Str("d"), amount |-> Num(Whole(1)), date |-> Absent],
     [title |-> Str("t"), dim |-> Str("d"), amount |-> Absent, date |-> Absent]}

TxPatches ==
    {[title |-> Absent, dim |-> Str("e"), amount |-> Num(Whole(2)), date |-> Day(1)]}

TransactionBodies ==
    {[title |-> Str("t"), dim |-> Str("d"), amount |-> Num(Whole(3)), date |-> Day(1),
      type |-> ty] : ty \in {Absent, Str("income"), Str("other")}}

TxLedgerFrame == <<users, client, LedgerFrame>>

TxCreateTransaction ==
    \E u \in Registered, body \in TransactionBodies :
        /\ createTransaction(u, body)
        /\ UNCHANGED <<users, client, incomes, expenses, investments, snap, cards,
                       creq, budgets, goals, now, today, accounts>>

TxCreateIncome ==
    \E u \in Registered, body \in TxBodies :
        createIncome(u, body) /\ UNCHANGED <<expenses, investments, TxLedgerFrame>>

TxUpdateIncome ==
    \E u \in Registered, id \in RecIds, body \in TxPatches :
        updateIncome(u, id, body) /\ UNCHANGED <<expenses, investments, TxLedgerFrame>>

TxDeleteIncome ==
    \E u \in Registered, id \in RecIds :
        deleteIncome(u, id) /\ UNCHANGED <<expenses, investments, TxLedgerFrame>>

TxCreateExpense ==
    \E u \in Registered, body \in TxBodies :
        createExpense(u, body) /\ UNCHANGED <<incomes, investments, TxLedgerFrame>>

TxUpdateExpense ==
    \E u \in Registered, id \in RecIds, body \in TxPatches :
        updateExpense(u, id, body) /\ UNCHANGED <<incomes, investments, TxLedgerFrame>>

TxDeleteExpense ==
    \E u \in Registered, id \in RecIds :
        deleteExpense(u, id) /\ UNCHANGED <<incomes, investments, TxLedgerFrame>>

TxCreateInvestment ==
    \E u \in Registered, body \in TxBodies :
        createInvestment(u, body) /\ UNCHANGED <<incomes, expenses, TxLedgerFrame>>

TxUpdateInvestment ==
    \E u \in Registered, id \in RecIds, body \in TxPatches :
        updateInvestment(u, id, body) /\ UNCHANGED <<incomes, expenses, TxLedgerFrame>>

TxDeleteInvestment ==
    \E u \in Registered, id \in RecIds :
        deleteInvestment(u, id) /\ UNCHANGED <<incomes, expenses, TxLedgerFrame>>

NextTx ==
    \/ Register
    \/ TxCreateTransaction
    \/ TxCreateIncome \/ TxUpdateIncome \/ TxDeleteIncome
    \/ TxCreateExpense \/ TxUpdateExpense \/ TxDeleteExpense
    \/ TxCreateInvestment \/ TxUpdateInvestment \/ TxDeleteInvestment

SpecTx == Init /\ [][NextTx]_vars

\* every response GET /api/dashboard can give to userId
DashboardAnswers(userId) ==
    {DashboardBody(userId, oi, oe, ov) :
        oi \in DateDesc(incomes, Matching(incomes, userId, Absent)),
        oe \in DateDesc(expenses, Matching(expenses, userId, Absent)),
        ov \in DateDesc(investments, Matching(investments, userId, Absent))}

\* every list GET /api/transactions can page through for userId, with the
\* rows' values
TransactionFeed(userId) ==
    {[k \in 1..Len(o) |-> [id |-> o[k], row |-> transactions[o[k]]]] :
        o \in DateDesc(transactions, Matching(transactions, userId, Absent))}

TypedOps ==
    {"createIncome", "updateIncome", "deleteIncome",
     "createExpense", "updateExpense", "deleteExpense",
     "createInvestment", "updateInvestment", "deleteInvestment"}

\* C23: a createTransaction step changes neither the ledger nor any income,
\* expense or investment row, and the step that creates a transaction changes
\* no response the dashboard can give; a create, update or delete of an income,
\* expense or investment changes no list that GET /api/transactions can return.
C23_Independent ==
    [][/\ resp'.op = "createTransaction"
          => UNCHANGED <<account, incomes, expenses, investments>>
       /\ (resp'.op = "createTransaction" /\ resp'.status = 201)
          => \A u \in UserIds : DashboardAnswers(u)' = DashboardAnswers(u)
       /\ resp'.op \in TypedOps
          => \A u \in UserIds : TransactionFeed(u)' = TransactionFeed(u)]_vars

\* a transaction was created for a user who has an income, an expense and a
\* ledger that is not zero
C23_Witness ==
    /\ resp.op = "createTransaction" /\ resp.status = 201
    /\ account[resp.user] # NoRow /\ account[resp.user] # ZeroAccount
    /\ Matching(incomes, resp.user, Absent) # {}
    /\ Matching(transactions, resp.user, Absent) # {}

----------------------------------------------------------------------------
(* The create and delete handlers of incomes, expenses and investments,    *)
(* one awaited store call per step.  Two requests of user 1 are in flight  *)
(* over a store that holds one record; each store call either answers or   *)
(* throws, and a throw is caught by the handler's catch block, which       *)
(* answers 500.  A request that has answered stays in creq with pc "done". *)

DeleteOps == {"deleteIncome", "deleteExpense", "deleteInvestment"}

\* the table a handler works on
KindOf(op) ==
    IF op \in {"createIncome", "deleteIncome"} THEN "income"
    ELSE IF op \in {"createExpense", "deleteExpense"} THEN "expense"
    ELSE "investment"

RecordTable(kind) ==
    IF kind = "income" THEN incomes
    ELSE IF kind = "expense" THEN expenses ELSE investments

\* a write to the table of kind: the other two tables stay
RecordWrite(kind, table) ==
    /\ incomes' = IF kind = "income" THEN table ELSE incomes
    /\ expenses' = IF kind = "expense" THEN table ELSE expenses
    /\ investments' = IF kind = "investment" THEN table ELSE investments

\* the increments of the account.update of a create handler
KindCreateDelta(kind, row, a) ==
    IF kind = "income" THEN IncomeCreateDelta(row, a)
    ELSE IF kind = "expense" THEN ExpenseCreateDelta(row, a)
    ELSE InvestmentCreateDelta(row, a)

\* the decrements of the account.update of a delete handler
KindDeleteDelta(kind, row, a) ==
    IF kind = "income" THEN IncomeDeleteDelta(row, a)
    ELSE IF kind = "expense" THEN ExpenseDeleteDelta(row, a)
    ELSE InvestmentDeleteDelta(row, a)

\* the handler of request p answers: res.status(status), or the catch block
CallAnswer(p, status) ==
    /\ Answer(creq[p].op, creq[p].userId, status, creq[p].id)
    /\ creq' = [creq EXCEPT ![p].pc = "done", ![p].status = status]

\* the store call of request p threw without having written; fault tells a
\* failure of the store itself from a call the store refused (a vanished row,
\* the unique index)
CallThrows(p, fault) ==
    /\ creq' = [creq EXCEPT ![p].pc = "done", ![p].status = 500, ![p].threw = TRUE,
                            ![p].fault = fault]
    /\ Answer(creq[p].op, creq[p].userId, 500, creq[p].id)
    /\ UNCHANGED <<incomes, expenses, investments, account, nextId>>

\* a request of handler op by userId, past its checks: a create carries the
\* parsed amount, a delete the id of req.params; found tells that its
\* account.findUnique returned a row, wrote that its first write is done,
\* threw that a store call of it threw, fault that the store itself failed
CallRequest(op, userId, amount, id) ==
    [op |-> op, userId |-> userId, amount |-> amount, id |-> id,
     pc |-> IF op \in CreateOps THEN "create" ELSE "findFirst",
     status |-> 0, found |-> FALSE, wrote |-> FALSE, threw |-> FALSE,
     fault |-> FALSE]

\* prisma.<table>.create of a create handler
callCreate(p, throws) ==
    /\ creq[p].pc = "create"
    /\ IF throws THEN CallThrows(p, throws)
       ELSE LET kind == KindOf(creq[p].op) IN
            /\ nextId + 1 \in DOMAIN RecordTable(kind)
            /\ nextId' = nextId + 1
            /\ RecordWrite(kind, [RecordTable(kind) EXCEPT ![nextId + 1] =
                   [userId |-> creq[p].userId, amount |-> Dec(creq[p].amount),
                    dim |-> "d", date |-> today]])
            /\ creq' = [creq EXCEPT ![p].pc = "findUnique", ![p].id = nextId + 1,
                                    ![p].wrote = TRUE]
            /\ UNCHANGED <<account, resp>>

\* prisma.<table>.findFirst({where: {id, userId}}) of a delete handler, and the
\* 404; the request keeps the amount of the row it read
callFindFirst(p, throws) ==
    /\ creq[p].pc = "findFirst"
    /\ IF throws THEN CallThrows(p, throws)
       ELSE LET row == FindOwned(RecordTable(KindOf(creq[p].op)), creq[p].id,
                                 creq[p].userId) IN
            /\ IF row = NoRow
               THEN CallAnswer(p, 404)
               ELSE /\ creq' = [creq EXCEPT ![p].pc = "findUnique",
                                            ![p].amount = row.amount]
                    /\ UNCHANGED resp
            /\ UNCHANGED <<incomes, expenses, investments, account, nextId>>

\* prisma.account.findUnique({where: {userId}}) of either handler: createIncome
\* and createInvestment go on to create a missing row, createExpense answers
\* 201 without one, a delete goes on to remove the record
callFindUnique(p, throws) ==
    /\ creq[p].pc = "findUnique"
    /\ IF throws THEN CallThrows(p, throws)
       ELSE /\ IF account[creq[p].userId] # NoRow
               THEN /\ creq' = [creq EXCEPT ![p].pc = "accountUpdate",
                                            ![p].found = TRUE]
                    /\ UNCHANGED resp
               ELSE IF creq[p].op \in DeleteOps
               THEN creq' = [creq EXCEPT ![p].pc = "delete"] /\ UNCHANGED resp
               ELSE IF creq[p].op = "createExpense"
               THEN CallAnswer(p, 201)
               ELSE creq' = [creq EXCEPT ![p].pc = "accountCreate"] /\ UNCHANGED resp
            /\ UNCHANGED <<incomes, expenses, investments, account, nextId>>

\* prisma.account.create({data: {userId}}) of createIncome and
\* createInvestment, refused by accounts_userId_key when the row exists
callAccountCreate(p, throws) ==
    /\ creq[p].pc = "accountCreate"
    /\ IF throws \/ account[creq[p].userId] # NoRow THEN CallThrows(p, throws)
       ELSE /\ account' = [account EXCEPT ![creq[p].userId] = ZeroAccount]
            /\ creq' = [creq EXCEPT ![p].pc = "accountUpdate"]
            /\ UNCHANGED <<incomes, expenses, investments, nextId, resp>>

\* an account.update of a create handler that takes the record back when it fails
callAccountUpdate_Compensating(p, throws) ==
    /\ creq[p].pc = "accountUpdate"
    /\ LET userId == creq[p].userId
           kind == KindOf(creq[p].op) IN
       IF throws \/ account[userId] = NoRow
       THEN /\ creq' = [creq EXCEPT ![p].pc = "done", ![p].status = 500,
                                    ![p].threw = TRUE, ![p].fault = throws]
            /\ Answer(creq[p].op, userId, 500, creq[p].id)
            /\ IF creq[p].op \in CreateOps
               THEN RecordWrite(kind, [RecordTable(kind) EXCEPT ![creq[p].id] = NoRow])
               ELSE UNCHANGED <<incomes, expenses, investments>>
            /\ UNCHANGED <<account, nextId>>
       ELSE /\ account' = [account EXCEPT ![userId] =
                              IF creq[p].op \in CreateOps
                              THEN KindCreateDelta(kind, @, creq[p].amount)
                              ELSE KindDeleteDelta(kind, @, creq[p].amount)]
            /\ IF creq[p].op \in CreateOps
               THEN CallAnswer(p, 201)
               ELSE /\ creq' = [creq EXCEPT ![p].pc = "delete", ![p].wrote = TRUE]
                    /\ UNCHANGED resp
            /\ UNCHANGED <<incomes, expenses, investments, nextId>>

\* prisma.account.update({where: {userId}, data: ...}), which throws when no row
\* matches: the increments and the 201 of a create handler, the decrements of
\* a delete handler by the amount of the row it read
callAccountUpdate(p, throws) ==
    /\ creq[p].pc = "accountUpdate"
    /\ LET userId == creq[p].userId
           kind == KindOf(creq[p].op) IN
       IF throws \/ account[userId] = NoRow THEN CallThrows(p, throws)
       ELSE /\ account' = [account EXCEPT ![userId] =
                              IF creq[p].op \in CreateOps
                              THEN KindCreateDelta(kind, @, creq[p].amount)
                              ELSE KindDeleteDelta(kind, @, creq[p].amount)]
            /\ IF creq[p].op \in CreateOps
               THEN CallAnswer(p, 201)
               ELSE /\ creq' = [creq EXCEPT ![p].pc = "delete", ![p].wrote = TRUE]
                    /\ UNCHANGED resp
            /\ UNCHANGED <<incomes, expenses, investments, nextId>>

\* prisma.<table>.delete({where: {id}}) of a delete handler, which throws when
\* the row is gone, and the 200
callDelete(p, throws) ==
    /\ creq[p].pc = "delete"
    /\ LET kind == KindOf(creq[p].op) IN
       IF throws \/ RecordTable(kind)[creq[p].id] = NoRow THEN CallThrows(p, throws)
       ELSE /\ RecordWrite(kind, [RecordTable(kind) EXCEPT ![creq[p].id] = NoRow])
            /\ CallAnswer(p, 200)
            /\ UNCHANGED <<account, nextId>>

CallAmounts == {Whole(1)}

\* the record the store holds at the start, and the ledger with its delta
StoredRow == [userId |-> 1, amount |-> Whole(1), dim |-> "d", date |-> 0]

CallRequests ==
    {CallRequest(op, 1, a, 0) : op \in CreateOps, a \in CallAmounts}
    \cup {CallRequest(op, 1, 0, 1) : op \in DeleteOps}

\* what the steps of this specification leave alone
CallFrame == <<users, snap, cards, budgets, goals, now, client, transactions,
               today, accounts>>

\* user 1 holds record 1 in one of the three tables; its ledger row is missing
\* (a registration or a backfill whose account.create failed) or carries the
\* record's delta; snap keeps the ledger as it was before the record
InitCalls ==
    /\ users = ReadUsers
    /\ \E kind \in {"income", "expense", "investment"}, ledger \in BOOLEAN :
          /\ incomes = [i \in RecIds |->
                           IF i = 1 /\ kind = "income" THEN StoredRow ELSE NoRow]
          /\ expenses = [i \in RecIds |->
                            IF i = 1 /\ kind = "expense" THEN StoredRow ELSE NoRow]
          /\ investments = [i \in RecIds |->
                               IF i = 1 /\ kind = "investment" THEN StoredRow ELSE NoRow]
          /\ account = [u \in UserIds |->
                           IF u = 1 /\ ledger
                           THEN KindCreateDelta(kind, ZeroAccount, StoredRow.amount)
                           ELSE NoRow]
          /\ snap = [u \in UserIds |->
                        IF u = 1
                        THEN [kind |-> kind, id |-> 1, before |-> ZeroAccount,
                              done |-> FALSE]
                        ELSE None]
    /\ nextId = 1
    /\ resp = InitResp
    /\ cards = [i \in RecIds |-> NoRow]
    /\ creq \in [Procs -> CallRequests]
    /\ budgets = [i \in RecIds |-> NoRow]
    /\ goals = [i \in RecIds |-> NoRow]
    /\ now = 0
    /\ client = [u \in UserIds |-> None]
    /\ transactions = [i \in RecIds |-> NoRow]
    /\ today = 0
    /\ accounts = <<>>

CallCreate ==
    \E p \in Procs, throws \in BOOLEAN : callCreate(p, throws) /\ UNCHANGED CallFrame

CallFindFirst ==
    \E p \in Procs, throws \in BOOLEAN : callFindFirst(p, throws) /\ UNCHANGED CallFrame

CallFindUnique ==
    \E p \in Procs, throws \in BOOLEAN : callFindUnique(p, throws) /\ UNCHANGED CallFrame

CallAccountCreate ==
    \E p \in Procs, throws \in BOOLEAN :
        callAccountCreate(p, throws) /\ UNCHANGED CallFrame

CallAccountUpdate ==
    \E p \in Procs, throws \in BOOLEAN :
        callAccountUpdate(p, throws) /\ UNCHANGED CallFrame

CallDelete ==
    \E p \in Procs, throws \in BOOLEAN : callDelete(p, throws) /\ UNCHANGED CallFrame

NextCalls ==
    \/ CallCreate
    \/ CallFindFirst
    \/ CallFindUnique
    \/ CallAccountCreate
    \/ CallAccountUpdate
    \/ CallDelete

SpecCalls == InitCalls /\ [][NextCalls]_vars

\* request p takes a step
Steps(p) == creq'[p] # creq[p]

\* some row leaves the table of kind
RowRemoved(kind) ==
    \E id \in RecIds : RecordTable(kind)[id] # NoRow /\ RecordTable(kind)'[id] = NoRow

\* C24: a delete removes its row only after its ledger decrement (or after
\* finding no ledger row), a create applies its ledger increment only after
\* its insert, with the inserted row in the table; when the later write of
\* either handler throws, the request is answered 500 in that step, which
\* leaves the ledger and the three tables as the first write left them, and
\* the request takes no further step.
C24_WriteOrder ==
    [][\A p \in Procs :
          /\ (Steps(p) /\ RowRemoved(KindOf(creq[p].op)))
             => /\ creq[p].op \in DeleteOps
                /\ creq[p].wrote \/ ~creq[p].found
          /\ (Steps(p) /\ account' # account /\ creq[p].op \in CreateOps
              /\ account[creq[p].userId] # NoRow)
             => /\ creq[p].wrote
                /\ RecordTable(KindOf(creq[p].op))[creq[p].id] # NoRow
          /\ ((callAccountUpdate(p, TRUE) \/ callAccountCreate(p, TRUE))
              /\ creq[p].op \in CreateOps)
             => /\ resp'.status = 500 /\ creq'[p].pc = "done"
                /\ RecordTable(KindOf(creq[p].op))'[creq[p].id] # NoRow
                /\ UNCHANGED <<incomes, expenses, investments, account>>
          /\ (callDelete(p, TRUE) /\ creq[p].wrote)
             => /\ resp'.status = 500 /\ creq'[p].pc = "done"
                /\ UNCHANGED <<incomes, expenses, investments, account>>
          /\ creq[p].pc = "done" => ~Steps(p)]_vars

\* a create whose account.update threw has answered 500 with its row stored,
\* and a delete whose row delete threw has answered 500 with the ledger
\* decremented and the row still stored
C24_Witness ==
    /\ creq[1].op = "createIncome" /\ creq[1].pc = "done" /\ creq[1].status = 500
    /\ creq[1].threw /\ creq[1].wrote /\ incomes[creq[1].id] # NoRow
    /\ account[1] = ZeroAccount
    /\ creq[2].op = "deleteExpense" /\ creq[2].pc = "done" /\ creq[2].status = 500
    /\ creq[2].threw /\ creq[2].wrote /\ expenses[1] # NoRow

\* both requests are deletes of the record the store held at the start, both
\* have answered, and the store itself failed neither
TwoDeletesDone ==
    /\ \A p \in Procs :
          /\ creq[p].op \in DeleteOps /\ KindOf(creq[p].op) = snap[1].kind
          /\ creq[p].id = snap[1].id
          /\ creq[p].pc = "done" /\ ~creq[p].fault
    /\ account[1] # NoRow

\* C27: when two deletes of the same record have both answered, with their
\* store calls interleaved in any way, the ledger is what it was before the
\* record was created: the record's amount is reversed exactly once.
C27_ReversedOnce ==
    TwoDeletesDone => account[1] = snap[1].before

----------------------------------------------------------------------------
(* The ledger against the stored records *)

\* the sum of amount over the rows of userId in table
StoredTotal(table, userId) == SumAmount(table, RowsOf(table, userId))

\* C25: with requests one at a time and no failing store call, the ledger row
\* of a user who got it at registration carries the sums of amount over the
\* user's stored incomes, expenses and investments, and its totalBalance is
\* the balanceLeft of those sums.
C25_LedgerIsSum ==
    \A u \in UserIds :
        client[u] # None =>
            LET i == StoredTotal(incomes, u)
                e == StoredTotal(expenses, u)
                v == StoredTotal(investments, u)
            IN /\ account[u].totalIncome = i
               /\ account[u].totalExpense = e
               /\ account[u].totalInvested = v
               /\ account[u].totalBalance = i - e - v

\* C26: every ledger row has totalBalance = totalIncome - totalExpense -
\* totalInvested.
C26_BalanceIdentity ==
    \A u \in UserIds :
        account[u] # NoRow =>
            account[u].totalBalance =
                account[u].totalIncome - account[u].totalExpense
                - account[u].totalInvested

\* C29: no ledger row has a negative totalIncome, totalExpense or
\* totalInvested.
C29_TotalsNonNegative ==
    \A u \in UserIds :
        account[u] # NoRow =>
            /\ account[u].totalIncome >= 0
            /\ account[u].totalExpense >= 0
            /\ account[u].totalInvested >= 0

----------------------------------------------------------------------------
(* Savings goals under createSavingsGoal, contribute and withdraw alone,   *)
(* one request at a time: no update and no delete reaches a goal.          *)

NextFunds ==
    \/ GoalRegister
    \/ CreateSavingsGoal
    \/ ContributeSavingsGoal
    \/ WithdrawSavingsGoal

SpecFunds == Init /\ [][NextFunds]_vars

\* C30: no contribute or withdraw step takes a goal whose status is
\* 'completed' to the status 'active'.
C30_CompletedStays ==
    [][\A id \in RecIds :
          (goals[id] # NoRow /\ goals[id].status = "completed")
             => (goals'[id] # NoRow /\ goals'[id].status # "active")]_vars

----------------------------------------------------------------------------
(* contribute and withdraw, one awaited store call per step: two requests  *)
(* of user 1 on goal 1 are in flight, each reads the goal and then writes  *)
(* the amount it computed from the row it read.                            *)

\* a contribute or withdraw request past its amount check
FundRequest(op, userId, id, amount) ==
    [op |-> op, userId |-> userId, id |-> id, amount |-> amount,
     pc |-> "findFirst", status |-> 0, goal |-> NoRow]

\* prisma.savingsGoal.findFirst({where: {id, userId}}) and the 404
goalFindFirst(p) ==
    /\ creq[p].pc = "findFirst"
    /\ LET goal == FindOwned(goals, creq[p].id, creq[p].userId) IN
       IF goal = NoRow
       THEN /\ creq' = [creq EXCEPT ![p].pc = "done", ![p].status = 404]
            /\ GoalAnswer(creq[p].op, creq[p].userId, 404, creq[p].id, None, goal)
       ELSE /\ creq' = [creq EXCEPT ![p].pc = "update", ![p].goal = goal]
            /\ UNCHANGED resp
    /\ UNCHANGED goals

\* prisma.savingsGoal.update({where: {id}, data}): data carries the amount (and
\* for contribute the status) computed from the row the request read
goalUpdate(p) ==
    /\ creq[p].pc = "update"
    /\ LET id == creq[p].id
           data == IF creq[p].op = "contributeSavingsGoal"
                   THEN ContributeData(creq[p].goal, creq[p].amount)
                   ELSE WithdrawData(creq[p].goal, creq[p].amount)
       IN IF goals[id] = NoRow
          THEN /\ creq' = [creq EXCEPT ![p].pc = "done", ![p].status = 500]
               /\ GoalAnswer(creq[p].op, creq[p].userId, 500, id, None, creq[p].goal)
               /\ UNCHANGED goals
          ELSE /\ goals' = [goals EXCEPT ![id].currentAmount = data.currentAmount,
                                         ![id].status = data.status]
               /\ creq' = [creq EXCEPT ![p].pc = "done", ![p].status = 200]
               /\ GoalAnswer(creq[p].op, creq[p].userId, 200, id, creq[p].amount,
                             creq[p].goal)

FundAmounts == {Whole(10), Whole(30), Whole(100) - 2}

FundRequests ==
    {FundRequest(op, 1, 1, a) :
        op \in {"contributeSavingsGoal", "withdrawSavingsGoal"}, a \in FundAmounts}

\* goal 1 of user 1 with target 100 and some amount saved
StoredGoals ==
    {[userId |-> 1, targetAmount |-> Whole(100), currentAmount |-> c,
      status |-> "active"] : c \in {0, Whole(80)}}

\* snap keeps the goal as it was before the two requests
InitFunds ==
    /\ users = ReadUsers
    /\ account = [u \in UserIds |-> ZeroAccount]
    /\ incomes = [i \in RecIds |-> NoRow]
    /\ expenses = [i \in RecIds |-> NoRow]
    /\ investments = [i \in RecIds |-> NoRow]
    /\ nextId = 1
    /\ resp = InitResp
    /\ \E goal \in StoredGoals :
          /\ goals = [i \in RecIds |-> IF i = 1 THEN goal ELSE NoRow]
          /\ snap = [u \in UserIds |->
                        IF u = 1
                        THEN [kind |-> "goal", id |-> 1, before |-> goal, done |-> FALSE]
                        ELSE None]
    /\ cards = [i \in RecIds |-> NoRow]
    /\ creq \in [Procs -> FundRequests]
    /\ budgets = [i \in RecIds |-> NoRow]
    /\ now = 0
    /\ client = [u \in UserIds |-> None]
    /\ transactions = [i \in RecIds |-> NoRow]
    /\ today = 0
    /\ accounts = <<>>

\* what the steps of this specification leave alone
FundFrame == <<users, account, incomes, expenses, investments, nextId, snap, cards,
               budgets, now, client, transactions, today, accounts>>

GoalFindFirst == \E p \in Procs : goalFindFirst(p) /\ UNCHANGED FundFrame

GoalUpdate == \E p \in Procs : goalUpdate(p) /\ UNCHANGED FundFrame

NextRace ==
    \/ GoalFindFirst
    \/ GoalUpdate

SpecRace == InitFunds /\ [][NextRace]_vars

\* both requests are contributions and both are answered 200
TwoContributionsDone ==
    \A p \in Procs :
        /\ creq[p].op = "contributeSavingsGoal"
        /\ creq[p].pc = "done" /\ creq[p].status = 200

\* C28: when two contributions a and b on the same goal, with their reads and
\* writes interleaved in any way, are both answered 200, the goal's
\* currentAmount is its initial value + a + b.
C28_NoLostContribution ==
    TwoContributionsDone =>
        goals[1].currentAmount =
            snap[1].before.currentAmount + creq[1].amount + creq[2].amount

====
